---------------------------- MODULE Spec2Model ----------------------------
(***************************************************************************)
(* A model of vtkDICOMCharacterSet (Source/vtkDICOMCharacterSet.cxx): the  *)
(* byte decoders behind AnyToUTF8, the ISO 2022 decoder, the encoders      *)
(* behind FromUTF8, NextBackslash, and the defined-term registry           *)
(* (KeyFromString / GetCharacterSetString).                                *)
(*                                                                         *)
(* Texts are sequences of bytes (0..255).  A cursor is a 0-based offset,   *)
(* so the byte under cursor cp of text t is t[cp+1] and the end pointer is *)
(* Len(t).  Every decoder loop is modelled by a "step" operator that is    *)
(* one iteration of the loop; the actions apply one step at a time and the *)
(* recursive "Run" operators iterate the same step for nested calls.       *)
(***************************************************************************)
EXTENDS Integers, Sequences, FiniteSets, TLC

VARIABLES
  key,       \* this->Key of the vtkDICOMCharacterSet the operation runs on
  mode,      \* UTF8_IGNORE / UTF8_REPLACE / UTF8_ESCAPE
  text,      \* the input bytes
  pad,       \* the byte that lies in memory right after the input buffer
  pc,        \* position of the running operation
  cp,        \* input cursor (offset of the next unread byte)
  s,         \* output bytes written so far
  errpos,    \* offset of the first error so far, None when there is none
  charsetG,  \* ISO 2022: the G0..G3 designations
  state,     \* ISO 2022: the state bitfield; UTF8ToJISX: its state
  ev,        \* what the last step did (read by the properties)
  aux        \* operation-specific locals and results

vars == <<key, mode, text, pad, pc, cp, s, errpos, charsetG, state, ev, aux>>

None == -1

-----------------------------------------------------------------------------
(* Bounds of the model.                                                    *)

\* number of fragments an input text is assembled from
MaxParts == 3

-----------------------------------------------------------------------------
(* Helpers for 8..32 bit arithmetic.                                       *)

RECURSIVE BitAnd(_, _)
BitAnd(a, b) ==
  IF a = 0 \/ b = 0 THEN 0
  ELSE ((a % 2) * (b % 2)) + 2 * BitAnd(a \div 2, b \div 2)

RECURSIVE BitOr(_, _)
BitOr(a, b) ==
  IF a = 0 THEN b
  ELSE IF b = 0 THEN a
  ELSE (IF a % 2 = 1 \/ b % 2 = 1 THEN 1 ELSE 0) + 2 * BitOr(a \div 2, b \div 2)

RECURSIVE BitXor(_, _)
BitXor(a, b) ==
  IF a = 0 THEN b
  ELSE IF b = 0 THEN a
  ELSE (IF a % 2 # b % 2 THEN 1 ELSE 0) + 2 * BitXor(a \div 2, b \div 2)

Min(a, b) == IF a < b THEN a ELSE b

\* the bytes of t from offset lo (inclusive) to offset hi (exclusive)
Slice(t, lo, hi) == SubSeq(t, lo + 1, hi)

RECURSIVE Concat(_)
Concat(ss) == IF ss = <<>> THEN <<>> ELSE Head(ss) \o Concat(Tail(ss))

-----------------------------------------------------------------------------
(* The character set keys (vtkDICOMCharacterSet::EnumType) and the masks   *)
(* used with them.                                                         *)

CS == [ ISO_IR_6 |-> 0, ISO_IR_13 |-> 1,
        ISO_IR_100 |-> 8, ISO_IR_101 |-> 9, ISO_IR_109 |-> 10,
        ISO_IR_110 |-> 11, ISO_IR_144 |-> 12, ISO_IR_127 |-> 13,
        ISO_IR_126 |-> 14, ISO_IR_138 |-> 15, ISO_IR_148 |-> 16,
        ISO_IR_166 |-> 17,
        X_LATIN6 |-> 18, X_LATIN7 |-> 19, X_LATIN8 |-> 20,
        X_LATIN9 |-> 21, X_LATIN10 |-> 22,
        X_EUCKR |-> 24, X_GB2312 |-> 25,
        ISO_2022_IR_6 |-> 32, ISO_2022_IR_13 |-> 33,
        ISO_2022_IR_87 |-> 34, ISO_2022_IR_159 |-> 36,
        ISO_2022_IR_100 |-> 40, ISO_2022_IR_101 |-> 41,
        ISO_2022_IR_109 |-> 42, ISO_2022_IR_110 |-> 43,
        ISO_2022_IR_144 |-> 44, ISO_2022_IR_127 |-> 45,
        ISO_2022_IR_126 |-> 46, ISO_2022_IR_138 |-> 47,
        ISO_2022_IR_148 |-> 48, ISO_2022_IR_166 |-> 49,
        ISO_2022_IR_149 |-> 56, ISO_2022_IR_58 |-> 57,
        ISO_IR_192 |-> 64, GB18030 |-> 65, GBK |-> 66, X_BIG5 |-> 67,
        X_EUCJP |-> 69, X_SJIS |-> 70,
        X_CP874 |-> 76, X_CP1250 |-> 80, X_CP1251 |-> 81, X_CP1252 |-> 82,
        X_CP1253 |-> 83, X_CP1254 |-> 84, X_CP1255 |-> 85, X_CP1256 |-> 86,
        X_CP1257 |-> 87, X_CP1258 |-> 88, X_KOI8 |-> 90,
        Unknown |-> 255,
        \* masks
        ISO_2022_JP_BASE |-> 7, ISO_2022 |-> 32,
        ISO_2022_MAX |-> 57, ISO_2022_BASE |-> 31 ]

IsISO2022(k) == BitAnd(k, CS.ISO_2022) # 0 /\ k <= CS.ISO_2022_MAX

IsISO8859(k) == k >= CS.ISO_IR_100 /\ k <= CS.X_LATIN10

-----------------------------------------------------------------------------
(* UTF-8 codec.                                                            *)

UnicodeToUTF8(code) ==
  IF code <= 127 THEN <<code>>
  ELSE IF code <= 2047 THEN <<192 + code \div 64, 128 + (code % 64)>>
  ELSE IF code <= 65535 THEN
    <<224 + code \div 4096, 128 + ((code \div 64) % 64), 128 + (code % 64)>>
  ELSE IF code <= 1114111 THEN
    <<240 + code \div 262144, 128 + ((code \div 4096) % 64),
      128 + ((code \div 64) % 64), 128 + (code % 64)>>
  ELSE <<239, 191, 189>>

\* (s & 0xC0) == 0x80
IsCont(b) == b \div 64 = 2

\* a variant that reports an incomplete sequence as a malformed one
UTF8ResultMalformed(good, code, c) ==
  [code |-> IF good <= 0 THEN 65535 ELSE code, cp |-> c]

\* the value UTF8ToUnicode returns for the final "good" and the cursor
UTF8Result(good, code, c) ==
  [code |-> IF good = 0 THEN 65535 ELSE IF good < 0 THEN 65534 ELSE code,
   cp |-> c]

\* a variant that returns every surrogate as its own code
UTF8SurrogateAlone(t, code, c) == UTF8Result(1, code, c)

\* the check for a low surrogate after a high surrogate (lines 803-836)
UTF8Surrogate(t, code, c) ==
  LET ep == Len(t) IN
  IF c = ep THEN UTF8Result(-1, code, c)
  ELSE IF t[c+1] = 237 THEN
    IF c + 1 = ep THEN UTF8Result(-1, code, c)
    ELSE IF t[c+2] \div 16 = 11 THEN
      IF c + 2 = ep THEN UTF8Result(-1, code, c)
      ELSE IF IsCont(t[c+3]) THEN
        UTF8Result(1, (((code % 1024) * 16 + (t[c+2] % 16)) * 64 + (t[c+3] % 64))
                      + 65536, c + 3)
      ELSE UTF8Result(0, code, c)
    ELSE UTF8Result(0, code, c)
  ELSE UTF8Result(0, code, c)

UTF8ToUnicode(t, cp0) ==
  LET ep == Len(t) IN
  IF cp0 = ep THEN [code |-> 0, cp |-> cp0]
  ELSE
  LET c == t[cp0+1]
      c1 == cp0 + 1
  IN
  IF c < 128 THEN [code |-> c, cp |-> c1]
  ELSE IF c \div 32 = 6 THEN
    \* 2 bytes
    LET code == (c % 32) * 64 IN
    IF code < 128 THEN UTF8Result(0, code, c1)
    ELSE IF c1 = ep THEN UTF8Result(-1, code, c1)
    ELSE LET b == t[c1+1] IN
         IF IsCont(b) THEN UTF8Result(1, code + (b % 64), c1 + 1)
         ELSE UTF8Result(0, code, c1)
  ELSE IF c \div 16 = 14 THEN
    \* 3 bytes
    IF c1 = ep THEN UTF8Result(-1, 0, c1)
    ELSE
    LET code == (c % 16) * 64
        b == t[c1+1]
    IN
    IF ~((code # 0 \/ (b \div 32) % 2 = 1) /\ IsCont(b))
    THEN UTF8Result(0, code, c1)
    ELSE
    LET c2 == c1 + 1
        code2 == (code + (b % 64)) * 64
    IN
    IF c2 = ep THEN UTF8Result(-1, code2, c2)
    ELSE
    LET b2 == t[c2+1] IN
    IF ~IsCont(b2) THEN UTF8Result(0, code2, c2)
    ELSE
    LET code3 == code2 + (b2 % 64) IN
    IF code3 >= 55296 /\ code3 <= 56319
    THEN UTF8Surrogate(t, code3, c2 + 1)
    ELSE UTF8Result(1, code3, c2 + 1)
  ELSE IF c \div 8 = 30 THEN
    \* 4 bytes
    IF c1 = ep THEN UTF8Result(-1, 0, c1)
    ELSE
    LET code == (c % 8) * 64
        b == t[c1+1]
    IN
    IF ~((code # 0 \/ (b \div 16) % 4 # 0) /\ IsCont(b))
    THEN UTF8Result(0, code, c1)
    ELSE
    LET c2 == c1 + 1 IN
    IF c2 = ep THEN UTF8Result(-1, code, c2)
    ELSE
    LET code2 == (code + (b % 64)) * 64
        b2 == t[c2+1]
    IN
    IF ~IsCont(b2) THEN UTF8Result(0, code2, c2)
    ELSE
    LET c3 == c2 + 1 IN
    IF c3 = ep THEN UTF8Result(-1, code2, c3)
    ELSE
    LET code3 == (code2 + (b2 % 64)) * 64
        b3 == t[c3+1]
    IN
    IF ~IsCont(b3) THEN UTF8Result(0, code3, c3)
    ELSE
    LET code4 == code3 + (b3 % 64) IN
    IF code4 <= 1114111 THEN UTF8Result(1, code4, c3 + 1)
    ELSE UTF8Result(0, code4, c3 + 1)
  ELSE UTF8Result(0, c, c1)

-----------------------------------------------------------------------------
(* The handler for incorrectly encoded characters.                         *)

RECURSIVE EscapeBytes(_)
EscapeBytes(bs) ==
  IF bs = <<>> THEN <<>>
  ELSE UnicodeToUTF8(56320 + Head(bs)) \o EscapeBytes(Tail(bs))

\* a variant that copies the undecodable bytes to the output
BadCharsCopied(bs, m) == bs

BadCharsToUTF8(bs, m) ==
  IF m = "replace" THEN UnicodeToUTF8(65533)
  ELSE IF m = "escape" THEN EscapeBytes(bs)
  ELSE <<>>

-----------------------------------------------------------------------------
(* Conversion tables.  The table data (vtkDICOMCharacterSetTables.h) is    *)
(* not part of the source file, so each table is represented by the few    *)
(* entries that the inputs of this model use; every other index is         *)
(* unmapped (0xFFFD), and the inputs stay within the listed entries.       *)

\* single-byte tables: Table[key][x] for the byte x
SingleByteTable(k, x) ==
  IF k = CS.ISO_IR_100 THEN x
  ELSE IF k = CS.ISO_IR_126 THEN
    (IF x < 161 THEN x
     ELSE IF x = 161 THEN 8216
     ELSE IF x \in {174, 210, 255} THEN 65533
     ELSE IF x = 193 THEN 913
     ELSE x)
  ELSE IF k = CS.ISO_IR_13 THEN
    (IF x = 92 THEN 165
     ELSE IF x = 126 THEN 8254
     ELSE IF x < 128 THEN x
     ELSE IF x >= 161 /\ x <= 223 THEN x + 65216
     ELSE 65533)
  ELSE IF x < 128 THEN x ELSE 65533

\* KS X 1001 followed by the CP949 extension (from index 8836)
TableKSX1001 ==
  [i \in (282..375) \cup {0, 1410, 1411, 3620, 8836} |->
     IF i = 0 THEN 12288
     ELSE IF i <= 375 THEN 12593 + (i - 282)
     ELSE IF i = 1410 THEN 44032
     ELSE IF i = 1411 THEN 44033
     ELSE IF i = 3620 THEN 54620
     ELSE 44034]

\* JIS X 0208 (with the Shift-JIS extensions)
TableJISX0208 == [i \in {0, 28, 283} |->
                    IF i = 0 THEN 12288 ELSE IF i = 28 THEN 8212 ELSE 12354]

\* JIS X 0212
TableJISX0212 == [i \in {1410} |-> 19970]

\* GB2312 / GBK / GB18030 two-byte codes, then the GB18030 four-byte codes
TableGB == [i \in {1410, 8836, 8864, 23940, 63357} |->
              IF i = 1410 THEN 21834
              ELSE IF i = 8836 THEN 19970
              ELSE IF i = 8864 THEN 20055
              ELSE IF i = 23940 THEN 128
              ELSE 65533]

\* Big5
TableBig5 == [i \in {5024, 5495} |-> IF i = 5024 THEN 12288 ELSE 19968]

\* CompressedTable::operator[] on one of the tables above
TableLookup(T, i) == IF i \in DOMAIN T THEN T[i] ELSE 65533

\* CompressedTableR::operator[] on the reverse of one of the tables above
ReverseLookup(T, code) ==
  IF code <= 65533 /\ code # 65533 /\ \E i \in DOMAIN T : T[i] = code
  THEN CHOOSE i \in DOMAIN T : T[i] = code
  ELSE 65533

-----------------------------------------------------------------------------
(* One iteration of each decoder loop.  A step reads the text t at cursor  *)
(* c and gives the new cursor, the bytes appended to the output, the       *)
(* offset it records as an error (None when it records none), whether it   *)
(* took the branch for an undecodable sequence, and whether it left the    *)
(* loop with a break.                                                      *)

StepOk(c, out) ==
  [cp |-> c, emit |-> out, at |-> None, bad |-> FALSE, brk |-> FALSE]

StepBad(t, lastpos, c, m) ==
  [cp |-> c, emit |-> BadCharsToUTF8(Slice(t, lastpos, c), m),
   at |-> lastpos, bad |-> TRUE, brk |-> FALSE]

\* the common tail "if (code == 0xFFFD) { BadCharsToUTF8 ... } else ..."
StepCode(code, t, lastpos, c, m) ==
  IF code = 65533 THEN StepBad(t, lastpos, c, m)
  ELSE StepOk(c, UnicodeToUTF8(code))

UTF8ToUTF8(t, c, m) ==
  LET r == UTF8ToUnicode(t, c)
      n == r.cp - c
  IN
  IF r.code >= 65534 /\ r.code <= 65535 /\
     ~(n = 3 /\ t[c+1] = 239 /\ t[c+2] = 191 /\ t[c+3] = BitXor(r.code, 65344))
  THEN [cp |-> r.cp,
        emit |-> IF r.code = 65535
                 THEN BadCharsToUTF8(Slice(t, c, r.cp), m) ELSE <<>>,
        at |-> c, bad |-> TRUE, brk |-> FALSE]
  ELSE [cp |-> r.cp, emit |-> UnicodeToUTF8(r.code),
        at |-> IF n = 6 \/ (r.code >= 55296 /\ r.code <= 57343)
               THEN c ELSE None,
        bad |-> FALSE, brk |-> FALSE]

ASCIIToUTF8(t, c, m) ==
  IF t[c+1] <= 127 THEN StepOk(c + 1, <<t[c+1]>>)
  ELSE StepBad(t, c, c + 1, m)

\* nxt is the byte that follows the segment t in memory
UnknownToUTF8(t, c, m, nxt) ==
  LET code == t[c+1]
      i == c + 1
      after == IF i < Len(t) THEN t[i+1] ELSE nxt
  IN
  IF (code >= 33 /\ code < 127) \/ code > 127
  THEN [cp |-> i, emit |-> BadCharsToUTF8(<<after>>, m),
        at |-> None, bad |-> TRUE, brk |-> FALSE]
  ELSE StepOk(i, UnicodeToUTF8(code))

\* the offsets of its slice t that the iteration of UnknownToUTF8 at c
\* reads: "text[i++]" (line 1555) and, for an undecodable byte in escape
\* mode, the "*cp" of BadCharsToUTF8(&text[i], &text[i+1]) (lines 919, 1559)
UnknownToUTF8Reads(t, c, m) ==
  LET code == t[c+1] IN
  IF ((code >= 33 /\ code < 127) \/ code > 127) /\ m = "escape"
  THEN {c, c + 1} ELSE {c}

SingleByteToUTF8(k, t, c, m) ==
  StepCode(SingleByteTable(k, t[c+1]), t, c, c + 1, m)

\* wincodes[x] where bit x of wincodesUsed is set, else None; the 32-bit
\* wincodesUsed is written as its high and low 16-bit halves
WinCode(k, x) ==
  LET wincodes == <<8364, 65533, 8218, 402, 8222, 8230, 8224, 8225,
                    710, 8240, 352, 8249, 338, 65533, 381, 65533,
                    65533, 8216, 8217, 8220, 8221, 8226, 8211, 8212,
                    732, 8482, 353, 8250, 339, 65533, 382, 376>>
      wincodesUsed == IF k = CS.ISO_IR_100 THEN <<57342, 24573>>
                      ELSE IF k = CS.ISO_IR_148 THEN <<40958, 8189>>
                      ELSE IF k = CS.ISO_IR_166 THEN <<254, 33>>
                      ELSE <<0, 0>>
      used == IF x < 16 THEN BitAnd(2^x, wincodesUsed[2])
              ELSE BitAnd(2^(x - 16), wincodesUsed[1])
  IN IF used # 0 THEN wincodes[x+1] ELSE None

ISO8859ToUTF8(k, t, c, m) ==
  LET x == t[c+1] IN
  IF x < 128 THEN StepOk(c + 1, <<x>>)
  ELSE
  LET code == IF x < 160 /\ WinCode(k, x - 128) # None
              THEN WinCode(k, x - 128)
              ELSE SingleByteTable(k, x)
  IN StepCode(code, t, c, c + 1, m)

\* the table index "a*94+b" of the Shift-JIS code (x, y), lines 1833-1855
SJISPairIndex(x, y) ==
  LET a0 == IF y < 159 THEN 0 ELSE 1
      b == IF y < 159 THEN y - (IF y < 127 THEN 64 ELSE 65) ELSE y - 159
      a == a0 + (IF x <= 159 THEN (x - 129) * 2 ELSE (x - 193) * 2)
  IN a * 94 + b

SJISToUTF8(t, c, m) ==
  LET x == t[c+1]
      c1 == c + 1
  IN
  IF x < 128 THEN StepOk(c1, <<x>>)
  ELSE IF x >= 161 /\ x <= 223 THEN StepCode(x + 65216, t, c, c1, m)
  ELSE IF x # 128 /\ x # 160 /\ x <= 252 /\ c1 # Len(t) THEN
    LET y == t[c1+1] IN
    IF y >= 64 /\ y <= 252 /\ y # 127 THEN
      LET code == TableLookup(TableJISX0208, SJISPairIndex(x, y))
          code932 ==
            IF x # 129 THEN code
            ELSE CASE y = 92 -> 8213 [] y = 95 -> 65340 [] y = 96 -> 65374
                   [] y = 97 -> 8741 [] y = 124 -> 65293 [] y = 145 -> 65504
                   [] y = 146 -> 65505 [] y = 202 -> 65506 [] OTHER -> code
      IN StepCode(code932, t, c, c1 + 1, m)
    ELSE StepBad(t, c, c1, m)
  ELSE StepBad(t, c, c1, m)

EUCJPToUTF8(t, c, m) ==
  LET x == t[c+1]
      c1 == c + 1
      ep == Len(t)
  IN
  IF x < 128 THEN StepOk(c1, <<x>>)
  ELSE IF x < 255 /\ c1 # ep /\ t[c1+1] >= 161 /\ t[c1+1] < 255 THEN
    LET y == t[c1+1] IN
    IF x >= 161 THEN
      StepCode(TableLookup(TableJISX0208, (x - 161) * 94 + (y - 161)),
               t, c, c1 + 1, m)
    ELSE IF x = 143 THEN
      IF c1 + 1 = ep
      THEN [cp |-> c1, emit |-> <<>>, at |-> None, bad |-> FALSE, brk |-> TRUE]
      ELSE LET y2 == t[c1+2] IN
           IF y2 >= 161 /\ y2 < 255
           THEN StepCode(TableLookup(TableJISX0212, (y - 161) * 94 + (y2 - 161)),
                         t, c, c1 + 2, m)
           ELSE StepBad(t, c, c1, m)
    ELSE IF x = 142 /\ y <= 223 THEN StepCode(y + 65216, t, c, c1 + 1, m)
    ELSE StepBad(t, c, c1, m)
  ELSE StepBad(t, c, c1, m)

\* the table index t of the Big5 code (x, y), lines 2090-2091
Big5PairIndex(x, y) ==
  LET offset == IF y < 127 THEN 64 ELSE 98 IN
  (x - 129) * 157 + (y - offset)

Big5ToUTF8(t, c, m) ==
  LET x == t[c+1]
      c1 == c + 1
  IN
  IF x < 128 THEN StepOk(c1, <<x>>)
  ELSE IF x >= 129 /\ x <= 254 /\ c1 # Len(t) THEN
    LET y == t[c1+1] IN
    IF (y >= 64 /\ y <= 126) \/ (y >= 161 /\ y <= 254) THEN
      LET i == Big5PairIndex(x, y)
          code == CASE i = 11205 -> 131276 [] i = 11207 -> 131210
                    [] i = 11213 -> 161287 [] OTHER -> TableLookup(TableBig5, i)
      IN StepCode(code, t, c, c1 + 1, m)
    ELSE StepBad(t, c, c1, m)
  ELSE StepBad(t, c, c1, m)

\* the table index of the two-byte GBK code (a, b)
GBKIndex(a, b) ==
  LET b1 == IF b > 127 THEN b - 1 ELSE b IN
  IF a < 161 THEN (a - 129) * 190 + (b1 - 64) + 8836
  ELSE IF b < 161 THEN (a - 161) * 96 + (b1 - 64) + 8836 + 6080
  ELSE (a - 161) * 94 + (b - 161)

GBKToUTF8(t, c, m) ==
  LET a == t[c+1]
      c1 == c + 1
  IN
  IF a < 128 THEN StepOk(c1, <<a>>)
  ELSE IF a > 128 /\ a < 255 /\ c1 # Len(t) THEN
    LET b == t[c1+1] IN
    IF b >= 64 /\ b < 255 /\ b # 127
    THEN StepCode(TableLookup(TableGB, GBKIndex(a, b)), t, c, c1 + 1, m)
    ELSE StepBad(t, c, c1, m)
  ELSE StepBad(t, c, c1, m)

\* a variant that takes every four-byte code for a code of the BMP
GB18030FourByteBMP(a0, b0, x, y) ==
  TableLookup(TableGB, ((a0 - 129) * 10 + (b0 - 48)) * 1260
                         + (x - 129) * 10 + (y - 48) + 23940)

\* the code of a four-byte GB18030 sequence (a, b, x, y), lines 2418-2435
\* a and b are unsigned short; g is unsigned int, and 65535 * 1260 + 65535
\* is below 2^32
GB18030FourByte(a0, b0, x, y) ==
  LET a == ((a0 - 129) * 10 + (b0 - 48)) % 65536
      b == ((x - 129) * 10 + (y - 48)) % 65536
  IN
  IF a < 32 THEN TableLookup(TableGB, (a * 1260 + b + 23940) % 65536)
  ELSE IF a >= 150 THEN
    LET g == ((a - 150) % 65536) * 1260 + b IN
    IF g <= 1048575 THEN g + 65536 ELSE 65533
  ELSE 65533

\* a variant that has no valid code for 0xFFFD
IsNoCode(t, lastpos, c) == FALSE

\* "the 4-byte code 0x84,0x31,0xA4,0x37 is the valid code for 0xFFFD"
IsCodeOfFFFD(t, lastpos, c) ==
  c - lastpos >= 4 /\ Slice(t, lastpos, lastpos + 4) = <<132, 49, 164, 55>>

GB18030ToUTF8(t, c, m) ==
  LET a == t[c+1]
      c1 == c + 1
      ep == Len(t)
  IN
  IF a < 128 THEN StepOk(c1, <<a>>)
  ELSE IF c1 = ep
  THEN [cp |-> c1, emit |-> <<>>, at |-> c, bad |-> TRUE, brk |-> TRUE]
  ELSE
  LET b == t[c1+1]
      c2 == c1 + 1
      r == IF a > 128 /\ a < 255 /\ b >= 48 /\ b < 255 /\ b # 127 THEN
             IF b >= 64
             THEN [code |-> TableLookup(TableGB, GBKIndex(a, b)), cp |-> c2]
             ELSE IF c2 # ep /\ c2 + 1 # ep /\
                     t[c2+1] > 128 /\ t[c2+1] < 255 /\
                     t[c2+2] >= 48 /\ t[c2+2] <= 57
             THEN [code |-> GB18030FourByte(a, b, t[c2+1], t[c2+2]),
                   cp |-> c2 + 2]
             ELSE [code |-> 65533, cp |-> c2]
           ELSE [code |-> 65533, cp |-> c1]
  IN
  IF r.code = 65533 /\ ~IsCodeOfFFFD(t, c, r.cp)
  THEN StepBad(t, c, r.cp, m)
  ELSE StepOk(r.cp, UnicodeToUTF8(r.code))

GB2312ToUTF8(t, c, m) ==
  LET a == t[c+1]
      c1 == c + 1
  IN
  IF a < 128 THEN StepOk(c1, <<a>>)
  ELSE IF a >= 161 /\ a < 255 /\ c1 # Len(t) /\
          t[c1+1] >= 161 /\ t[c1+1] < 255
  THEN StepCode(TableLookup(TableGB, (a - 161) * 94 + (t[c1+1] - 161)),
                t, c, c1 + 1, m)
  ELSE StepBad(t, c, c1, m)

\* Table[csGL][a] as JISXToUTF8 uses it
JISXTable(csGL, a) ==
  IF csGL = CS.ISO_2022_IR_87 THEN TableLookup(TableJISX0208, a)
  ELSE IF csGL = CS.ISO_2022_IR_159 THEN TableLookup(TableJISX0212, a)
  ELSE IF csGL = CS.ISO_2022_IR_149 THEN TableLookup(TableKSX1001, a)
  ELSE IF csGL = CS.ISO_2022_IR_58 THEN TableLookup(TableGB, a)
  ELSE IF csGL \in {CS.ISO_IR_13, CS.ISO_2022_IR_13}
  THEN SingleByteTable(CS.ISO_IR_13, a)
  ELSE SingleByteTable(CS.ISO_IR_6, a)

JISXToUTF8(csGL, csGR, t, c, m) ==
  LET a == t[c+1]
      c1 == c + 1
      multibyte == csGL \in {CS.ISO_2022_IR_87, CS.ISO_2022_IR_159,
                             CS.ISO_2022_IR_149, CS.ISO_2022_IR_58}
  IN
  IF a >= 33 /\ a < 127 THEN
    IF multibyte THEN
      IF c1 # Len(t) /\ t[c1+1] >= 33 /\ t[c1+1] < 127
      THEN StepCode(JISXTable(csGL, (a - 33) * 94 + (t[c1+1] - 33)),
                    t, c, c1 + 1, m)
      ELSE StepBad(t, c, c1, m)
    ELSE IF csGL = CS.ISO_2022_IR_13
    THEN StepCode(JISXTable(csGL, a + 128), t, c, c1, m)
    ELSE StepCode(JISXTable(csGL, a), t, c, c1, m)
  ELSE IF a <= 127 THEN StepCode(a, t, c, c1, m)
  ELSE IF csGR = CS.ISO_IR_13 /\ a >= 161 /\ a <= 223
  THEN StepCode(a + 65216, t, c, c1, m)
  ELSE StepBad(t, c, c1, m)

\* the decoder's tables from a jamo byte (minus 0xA1) to an index
JamoTableL ==
  <<1, 2, 0, 3, 0, 0, 4, 5, 6, 0, 0, 0, 0, 0, 0,
    0, 7, 8, 9, 0, 10, 11, 12, 13, 14, 15, 16, 17, 18, 19, 0,
    0, 0, 0, 0, 0, 0, 0, 0, 0, 0, 0, 0, 0, 0, 0, 0,
    0, 0, 0, 0, 20>>

JamoTableT ==
  <<2, 3, 4, 5, 6, 7, 8, 0, 9, 10, 11, 12, 13, 14, 15,
    16, 17, 18, 0, 19, 20, 21, 22, 23, 0, 24, 25, 26, 27, 28, 0,
    0, 0, 0, 0, 0, 0, 0, 0, 0, 0, 0, 0, 0, 0, 0, 0,
    0, 0, 0, 0, 1>>

\* std::binary_search(hangul, hangul+2350, code) on the KS X 1001 block
InHangulBlock(code) ==
  \E i \in DOMAIN TableKSX1001 : i >= 1410 /\ i < 3760 /\ TableKSX1001[i] = code

\* a variant that composes the syllable whether or not KS X 1001 has it
JamoSequenceComposed(y1, y2, y3) ==
  LET L == JamoTableL[y1 - 160] - 1
      V == y2 - 191
      T == JamoTableT[y3 - 160] - 1
  IN [pre |-> <<>>, code |-> 44032 + (L * 21 + V) * 28 + T]

\* the output of a valid 8-byte jamo sequence (lines 2889-2930), as the
\* characters written before the last one and the last one
JamoSequence(y1, y2, y3) ==
  LET L == JamoTableL[y1 - 160] - 1
      V == y2 - 191
      T == JamoTableT[y3 - 160] - 1
      code == 44032 + (L * 21 + V) * 28 + T
  IN
  IF L < 19 /\ V < 21 THEN
    IF InHangulBlock(code)
    THEN [pre |-> <<12644, 12432 + y1, 12432 + y2>>, code |-> 12432 + y3]
    ELSE [pre |-> <<>>, code |-> code]
  ELSE IF L < 19 \/ V < 21 \/ T > 0 THEN
    LET lead == IF L < 19 THEN 4352 + L ELSE 4447
        vowel == IF V < 21 THEN 4449 + V ELSE 4448
    IN IF T > 0 THEN [pre |-> <<lead, vowel>>, code |-> 4519 + T]
       ELSE [pre |-> <<lead>>, code |-> vowel]
  ELSE [pre |-> <<12644, 12644, 12644>>, code |-> 12644]

RECURSIVE UnicodeSeqToUTF8(_)
UnicodeSeqToUTF8(codes) ==
  IF codes = <<>> THEN <<>>
  ELSE UnicodeToUTF8(Head(codes)) \o UnicodeSeqToUTF8(Tail(codes))

EUCKRToUTF8(t, c, m) ==
  LET x == t[c+1]
      c1 == c + 1
      ep == Len(t)
  IN
  IF x <= 127 THEN StepCode(x, t, c, c1, m)
  ELSE IF x >= 129 /\ x < 255 /\ c1 # ep THEN
    LET y == t[c1+1]
        c2 == c1 + 1
    IN
    IF x >= 161 /\ y >= 161 /\ y < 255 THEN
      LET code == TableLookup(TableKSX1001, (x - 161) * 94 + (y - 161)) IN
      IF x = 164 /\ y = 212 /\ ep - c2 >= 6 /\
         t[c2+1] = 164 /\ t[c2+2] >= 161 /\
         t[c2+3] = 164 /\ t[c2+4] >= 161 /\
         t[c2+5] = 164 /\ t[c2+6] >= 161 /\
         t[c2+2] <= 212 /\ JamoTableL[t[c2+2] - 160] # 0 /\
         t[c2+4] >= 191 /\ t[c2+4] <= 212 /\
         t[c2+6] <= 212 /\ JamoTableT[t[c2+6] - 160] # 0
      THEN
        LET j == JamoSequence(t[c2+2], t[c2+4], t[c2+6])
            r == StepCode(j.code, t, c, c2 + 6, m)
        IN [r EXCEPT !.emit = UnicodeSeqToUTF8(j.pre) \o @]
      ELSE StepCode(code, t, c, c2, m)
    ELSE IF (y >= 65 /\ y <= 90) \/ (y >= 97 /\ y <= 122) \/
            (y >= 129 /\ y < 255) THEN
      LET a == x - 129
          b0 == y - 65
          b == IF b0 >= 26 THEN (IF b0 - 6 >= 52 THEN b0 - 12 ELSE b0 - 6)
               ELSE b0
          i == IF a < 32 THEN a * 178 + b ELSE a * 84 + b + 3008
      IN
      IF i < 8822
      THEN StepCode(TableLookup(TableKSX1001, i + 8836), t, c, c2, m)
      ELSE StepBad(t, c, c1, m)
    ELSE StepBad(t, c, c1, m)
  ELSE StepBad(t, c, c1, m)

-----------------------------------------------------------------------------
(* The table of character sets.  Strings are sequences of byte values; the *)
(* comment above each row gives the row as it is written in the source.    *)

CharsetInfo(k, f, dt, dte, esc) ==
  [Key |-> k, Flags |-> f, DefinedTerm |-> dt, DefinedTermExt |-> dte,
   EscapeCode |-> esc]

Charsets == <<
  \* ISO_IR_6, 0, "ISO_IR 6", "ISO 2022 IR 6", ""
  CharsetInfo(CS.ISO_IR_6, 0, <<73, 83, 79, 95, 73, 82, 32, 54>>,
              <<73, 83, 79, 32, 50, 48, 50, 50, 32, 73, 82, 32, 54>>, <<>>),
  \* ISO_IR_100, 0, "ISO_IR 100", "ISO 2022 IR 100", "-A"
  CharsetInfo(CS.ISO_IR_100, 0, <<73, 83, 79, 95, 73, 82, 32, 49, 48, 48>>,
              <<73, 83, 79, 32, 50, 48, 50, 50, 32, 73, 82, 32, 49, 48, 48>>, <<45, 65>>),
  \* ISO_IR_101, 0, "ISO_IR 101", "ISO 2022 IR 101", "-B"
  CharsetInfo(CS.ISO_IR_101, 0, <<73, 83, 79, 95, 73, 82, 32, 49, 48, 49>>,
              <<73, 83, 79, 32, 50, 48, 50, 50, 32, 73, 82, 32, 49, 48, 49>>, <<45, 66>>),
  \* ISO_IR_109, 0, "ISO_IR 109", "ISO 2022 IR 109", "-C"
  CharsetInfo(CS.ISO_IR_109, 0, <<73, 83, 79, 95, 73, 82, 32, 49, 48, 57>>,
              <<73, 83, 79, 32, 50, 48, 50, 50, 32, 73, 82, 32, 49, 48, 57>>, <<45, 67>>),
  \* ISO_IR_110, 0, "ISO_IR 110", "ISO 2022 IR 110", "-D"
  CharsetInfo(CS.ISO_IR_110, 0, <<73, 83, 79, 95, 73, 82, 32, 49, 49, 48>>,
              <<73, 83, 79, 32, 50, 48, 50, 50, 32, 73, 82, 32, 49, 49, 48>>, <<45, 68>>),
  \* ISO_IR_144, 0, "ISO_IR 144", "ISO 2022 IR 144", "-L"
  CharsetInfo(CS.ISO_IR_144, 0, <<73, 83, 79, 95, 73, 82, 32, 49, 52, 52>>,
              <<73, 83, 79, 32, 50, 48, 50, 50, 32, 73, 82, 32, 49, 52, 52>>, <<45, 76>>),
  \* ISO_IR_127, 0, "ISO_IR 127", "ISO 2022 IR 127", "-G"
  CharsetInfo(CS.ISO_IR_127, 0, <<73, 83, 79, 95, 73, 82, 32, 49, 50, 55>>,
              <<73, 83, 79, 32, 50, 48, 50, 50, 32, 73, 82, 32, 49, 50, 55>>, <<45, 71>>),
  \* ISO_IR_126, 0, "ISO_IR 126", "ISO 2022 IR 126", "-F"
  CharsetInfo(CS.ISO_IR_126, 0, <<73, 83, 79, 95, 73, 82, 32, 49, 50, 54>>,
              <<73, 83, 79, 32, 50, 48, 50, 50, 32, 73, 82, 32, 49, 50, 54>>, <<45, 70>>),
  \* ISO_IR_138, 0, "ISO_IR 138", "ISO 2022 IR 138", "-H"
  CharsetInfo(CS.ISO_IR_138, 0, <<73, 83, 79, 95, 73, 82, 32, 49, 51, 56>>,
              <<73, 83, 79, 32, 50, 48, 50, 50, 32, 73, 82, 32, 49, 51, 56>>, <<45, 72>>),
  \* ISO_IR_148, 0, "ISO_IR 148", "ISO 2022 IR 148", "-M"
  CharsetInfo(CS.ISO_IR_148, 0, <<73, 83, 79, 95, 73, 82, 32, 49, 52, 56>>,
              <<73, 83, 79, 32, 50, 48, 50, 50, 32, 73, 82, 32, 49, 52, 56>>, <<45, 77>>),
  \* ISO_IR_166, 0, "ISO_IR 166", "ISO 2022 IR 166", "-T"
  CharsetInfo(CS.ISO_IR_166, 0, <<73, 83, 79, 95, 73, 82, 32, 49, 54, 54>>,
              <<73, 83, 79, 32, 50, 48, 50, 50, 32, 73, 82, 32, 49, 54, 54>>, <<45, 84>>),
  \* ISO_IR_13, 0, "ISO_IR 13", "ISO 2022 IR 13", ")I"
  CharsetInfo(CS.ISO_IR_13, 0, <<73, 83, 79, 95, 73, 82, 32, 49, 51>>,
              <<73, 83, 79, 32, 50, 48, 50, 50, 32, 73, 82, 32, 49, 51>>, <<41, 73>>),
  \* ISO_IR_13, 0, "ISO_IR 14", "ISO 2022 IR 14", "(J"
  CharsetInfo(CS.ISO_IR_13, 0, <<73, 83, 79, 95, 73, 82, 32, 49, 52>>,
              <<73, 83, 79, 32, 50, 48, 50, 50, 32, 73, 82, 32, 49, 52>>, <<40, 74>>),
  \* ISO_IR_13, 0, "ISO_IR 14", "ISO 2022 IR 14", "(H"
  CharsetInfo(CS.ISO_IR_13, 0, <<73, 83, 79, 95, 73, 82, 32, 49, 52>>,
              <<73, 83, 79, 32, 50, 48, 50, 50, 32, 73, 82, 32, 49, 52>>, <<40, 72>>),
  \* ISO_2022_IR_6, 0, "ISO_IR 6", "ISO 2022 IR 6", "(B"
  CharsetInfo(CS.ISO_2022_IR_6, 0, <<73, 83, 79, 95, 73, 82, 32, 54>>,
              <<73, 83, 79, 32, 50, 48, 50, 50, 32, 73, 82, 32, 54>>, <<40, 66>>),
  \* ISO_2022_IR_13, 0, "ISO_IR 13", "ISO 2022 IR 13", "(I"
  CharsetInfo(CS.ISO_2022_IR_13, 0, <<73, 83, 79, 95, 73, 82, 32, 49, 51>>,
              <<73, 83, 79, 32, 50, 48, 50, 50, 32, 73, 82, 32, 49, 51>>, <<40, 73>>),
  \* ISO_2022_IR_87, 2, "ISO_IR 87", "ISO 2022 IR 87", "$B"
  CharsetInfo(CS.ISO_2022_IR_87, 2, <<73, 83, 79, 95, 73, 82, 32, 56, 55>>,
              <<73, 83, 79, 32, 50, 48, 50, 50, 32, 73, 82, 32, 56, 55>>, <<36, 66>>),
  \* ISO_2022_IR_87, 2, "ISO_IR 87", "ISO 2022 IR 87", "$@"
  CharsetInfo(CS.ISO_2022_IR_87, 2, <<73, 83, 79, 95, 73, 82, 32, 56, 55>>,
              <<73, 83, 79, 32, 50, 48, 50, 50, 32, 73, 82, 32, 56, 55>>, <<36, 64>>),
  \* ISO_2022_IR_159, 2, "ISO_IR 159", "ISO 2022 IR 159", "$(D"
  CharsetInfo(CS.ISO_2022_IR_159, 2, <<73, 83, 79, 95, 73, 82, 32, 49, 53, 57>>,
              <<73, 83, 79, 32, 50, 48, 50, 50, 32, 73, 82, 32, 49, 53, 57>>, <<36, 40, 68>>),
  \* ISO_2022_IR_58, 1, "ISO_IR 58", "ISO 2022 IR 58", "$A"
  CharsetInfo(CS.ISO_2022_IR_58, 1, <<73, 83, 79, 95, 73, 82, 32, 53, 56>>,
              <<73, 83, 79, 32, 50, 48, 50, 50, 32, 73, 82, 32, 53, 56>>, <<36, 65>>),
  \* ISO_2022_IR_58, 1, "ISO_IR 58", "ISO 2022 IR 58", "$(A"
  CharsetInfo(CS.ISO_2022_IR_58, 1, <<73, 83, 79, 95, 73, 82, 32, 53, 56>>,
              <<73, 83, 79, 32, 50, 48, 50, 50, 32, 73, 82, 32, 53, 56>>, <<36, 40, 65>>),
  \* X_GB2312, 1, "ISO_IR 58", "ISO 2022 IR 58", "$)A"
  CharsetInfo(CS.X_GB2312, 1, <<73, 83, 79, 95, 73, 82, 32, 53, 56>>,
              <<73, 83, 79, 32, 50, 48, 50, 50, 32, 73, 82, 32, 53, 56>>, <<36, 41, 65>>),
  \* ISO_2022_IR_149, 1, "ISO_IR 149", "ISO 2022 IR 149", "$(C"
  CharsetInfo(CS.ISO_2022_IR_149, 1, <<73, 83, 79, 95, 73, 82, 32, 49, 52, 57>>,
              <<73, 83, 79, 32, 50, 48, 50, 50, 32, 73, 82, 32, 49, 52, 57>>, <<36, 40, 67>>),
  \* X_EUCKR, 1, "ISO_IR 149", "ISO 2022 IR 149", "$)C"
  CharsetInfo(CS.X_EUCKR, 1, <<73, 83, 79, 95, 73, 82, 32, 49, 52, 57>>,
              <<73, 83, 79, 32, 50, 48, 50, 50, 32, 73, 82, 32, 49, 52, 57>>, <<36, 41, 67>>),
  \* ISO_IR_100, 0, "ISO_IR 100", "ISO 2022 IR 100", ".A"
  CharsetInfo(CS.ISO_IR_100, 0, <<73, 83, 79, 95, 73, 82, 32, 49, 48, 48>>,
              <<73, 83, 79, 32, 50, 48, 50, 50, 32, 73, 82, 32, 49, 48, 48>>, <<46, 65>>),
  \* ISO_IR_126, 0, "ISO_IR 126", "ISO 2022 IR 126", ".F"
  CharsetInfo(CS.ISO_IR_126, 0, <<73, 83, 79, 95, 73, 82, 32, 49, 50, 54>>,
              <<73, 83, 79, 32, 50, 48, 50, 50, 32, 73, 82, 32, 49, 50, 54>>, <<46, 70>>),
  \* ISO_IR_192, 0, "ISO_IR 192", "", "%/I"
  CharsetInfo(CS.ISO_IR_192, 0, <<73, 83, 79, 95, 73, 82, 32, 49, 57, 50>>,
              <<>>, <<37, 47, 73>>),
  \* GB18030, 0, "GB18030", "", ""
  CharsetInfo(CS.GB18030, 0, <<71, 66, 49, 56, 48, 51, 48>>,
              <<>>, <<>>),
  \* GBK, 0, "GBK", "", ""
  CharsetInfo(CS.GBK, 0, <<71, 66, 75>>,
              <<>>, <<>>),
  \* X_LATIN6, 0, "latin6", "", "-V"
  CharsetInfo(CS.X_LATIN6, 0, <<108, 97, 116, 105, 110, 54>>,
              <<>>, <<45, 86>>),
  \* X_LATIN7, 0, "latin7", "", "-Y"
  CharsetInfo(CS.X_LATIN7, 0, <<108, 97, 116, 105, 110, 55>>,
              <<>>, <<45, 89>>),
  \* X_LATIN8, 0, "latin8", "", "-_"
  CharsetInfo(CS.X_LATIN8, 0, <<108, 97, 116, 105, 110, 56>>,
              <<>>, <<45, 95>>),
  \* X_LATIN9, 0, "latin9", "", "-b"
  CharsetInfo(CS.X_LATIN9, 0, <<108, 97, 116, 105, 110, 57>>,
              <<>>, <<45, 98>>),
  \* X_LATIN10, 0, "latin10", "", "-f"
  CharsetInfo(CS.X_LATIN10, 0, <<108, 97, 116, 105, 110, 49, 48>>,
              <<>>, <<45, 102>>),
  \* X_CP874, 0, "cp874", "", ""
  CharsetInfo(CS.X_CP874, 0, <<99, 112, 56, 55, 52>>,
              <<>>, <<>>),
  \* X_CP1250, 0, "cp1250", "", ""
  CharsetInfo(CS.X_CP1250, 0, <<99, 112, 49, 50, 53, 48>>,
              <<>>, <<>>),
  \* X_CP1251, 0, "cp1251", "", ""
  CharsetInfo(CS.X_CP1251, 0, <<99, 112, 49, 50, 53, 49>>,
              <<>>, <<>>),
  \* X_CP1252, 0, "cp1252", "", ""
  CharsetInfo(CS.X_CP1252, 0, <<99, 112, 49, 50, 53, 50>>,
              <<>>, <<>>),
  \* X_CP1253, 0, "cp1253", "", ""
  CharsetInfo(CS.X_CP1253, 0, <<99, 112, 49, 50, 53, 51>>,
              <<>>, <<>>),
  \* X_CP1254, 0, "cp1254", "", ""
  CharsetInfo(CS.X_CP1254, 0, <<99, 112, 49, 50, 53, 52>>,
              <<>>, <<>>),
  \* X_CP1255, 0, "cp1255", "", ""
  CharsetInfo(CS.X_CP1255, 0, <<99, 112, 49, 50, 53, 53>>,
              <<>>, <<>>),
  \* X_CP1256, 0, "cp1256", "", ""
  CharsetInfo(CS.X_CP1256, 0, <<99, 112, 49, 50, 53, 54>>,
              <<>>, <<>>),
  \* X_CP1257, 0, "cp1257", "", ""
  CharsetInfo(CS.X_CP1257, 0, <<99, 112, 49, 50, 53, 55>>,
              <<>>, <<>>),
  \* X_CP1258, 0, "cp1258", "", ""
  CharsetInfo(CS.X_CP1258, 0, <<99, 112, 49, 50, 53, 56>>,
              <<>>, <<>>),
  \* X_BIG5, 0, "big5", "", ""
  CharsetInfo(CS.X_BIG5, 0, <<98, 105, 103, 53>>,
              <<>>, <<>>),
  \* X_SJIS, 0, "sjis", "", ""
  CharsetInfo(CS.X_SJIS, 0, <<115, 106, 105, 115>>,
              <<>>, <<>>),
  \* X_EUCJP, 0, "euc-jp", "", ""
  CharsetInfo(CS.X_EUCJP, 0, <<101, 117, 99, 45, 106, 112>>,
              <<>>, <<>>),
  \* X_KOI8, 0, "koi8", "", ""
  CharsetInfo(CS.X_KOI8, 0, <<107, 111, 105, 56>>,
              <<>>, <<>>)
>>

\* the field Names of each row of Charsets, in the order of the rows; the
\* comment above each entry names the array of the source
Names == <<
  \* ISO_IR_6: ISO_IR_6_Names (lines 175-183)
  <<<<97, 110, 115, 105, 95, 120, 51, 46, 52, 45, 49, 57, 54, 56>>, <<97,
  110, 115, 105, 95, 120, 51, 46, 52, 45, 49, 57, 56, 54>>, <<97, 115, 99,
  105, 105>>, <<105, 115, 111, 45, 105, 114, 45, 54>>, <<105, 115, 111, 54,
  52, 54, 45, 117, 115>>, <<117, 115, 45, 97, 115, 99, 105, 105>>>>,
  \* ISO_IR_100: ISO_IR_100_Names (lines 185-200)
  <<<<99, 112, 56, 49, 57>>, <<99, 115, 105, 115, 111, 108, 97, 116, 105,
  110, 49>>, <<105, 98, 109, 56, 49, 57>>, <<105, 115, 111, 45, 56, 56, 53,
  57, 45, 49>>, <<105, 115, 111, 45, 105, 114, 45, 49, 48, 48>>, <<105, 115,
  111, 56, 56, 53, 57, 45, 49>>, <<105, 115, 111, 56, 56, 53, 57, 49>>,
  <<105, 115, 111, 95, 56, 56, 53, 57, 45, 49>>, <<105, 115, 111, 95, 56,
  56, 53, 57, 45, 49, 58, 49, 57, 56, 55>>, <<108, 49>>, <<108, 97, 116,
  105, 110, 49>>, <<105, 115, 111, 45, 105, 114, 32, 49, 48, 48>>>>,
  \* ISO_IR_101: ISO_IR_101_Names (lines 202-215)
  <<<<99, 115, 105, 115, 111, 108, 97, 116, 105, 110, 50>>, <<105, 115, 111,
  45, 56, 56, 53, 57, 45, 50>>, <<105, 115, 111, 45, 105, 114, 45, 49, 48,
  49>>, <<105, 115, 111, 56, 56, 53, 57, 45, 50>>, <<105, 115, 111, 56, 56,
  53, 57, 50>>, <<105, 115, 111, 95, 56, 56, 53, 57, 45, 50>>, <<105, 115,
  111, 95, 56, 56, 53, 57, 45, 50, 58, 49, 57, 56, 55>>, <<108, 50>>, <<108,
  97, 116, 105, 110, 50>>, <<105, 115, 111, 45, 105, 114, 32, 49, 48,
  49>>>>,
  \* ISO_IR_109: ISO_IR_109_Names (lines 217-230)
  <<<<99, 115, 105, 115, 111, 108, 97, 116, 105, 110, 51>>, <<105, 115, 111,
  45, 56, 56, 53, 57, 45, 51>>, <<105, 115, 111, 45, 105, 114, 45, 49, 48,
  57>>, <<105, 115, 111, 56, 56, 53, 57, 45, 51>>, <<105, 115, 111, 56, 56,
  53, 57, 51>>, <<105, 115, 111, 95, 56, 56, 53, 57, 45, 51>>, <<105, 115,
  111, 95, 56, 56, 53, 57, 45, 51, 58, 49, 57, 56, 56>>, <<108, 51>>, <<108,
  97, 116, 105, 110, 51>>, <<105, 115, 111, 45, 105, 114, 32, 49, 48,
  57>>>>,
  \* ISO_IR_110: ISO_IR_110_Names (lines 232-245)
  <<<<99, 115, 105, 115, 111, 108, 97, 116, 105, 110, 52>>, <<105, 115, 111,
  45, 56, 56, 53, 57, 45, 52>>, <<105, 115, 111, 45, 105, 114, 45, 49, 49,
  48>>, <<105, 115, 111, 56, 56, 53, 57, 45, 52>>, <<105, 115, 111, 56, 56,
  53, 57, 52>>, <<105, 115, 111, 95, 56, 56, 53, 57, 45, 52>>, <<105, 115,
  111, 95, 56, 56, 53, 57, 45, 52, 58, 49, 57, 56, 56>>, <<108, 52>>, <<108,
  97, 116, 105, 110, 52>>, <<105, 115, 111, 45, 105, 114, 32, 49, 49,
  48>>>>,
  \* ISO_IR_144: ISO_IR_144_Names (lines 247-259)
  <<<<99, 115, 105, 115, 111, 108, 97, 116, 105, 110, 99, 121, 114, 105,
  108, 108, 105, 99>>, <<99, 121, 114, 105, 108, 108, 105, 99>>, <<105, 115,
  111, 45, 56, 56, 53, 57, 45, 53>>, <<105, 115, 111, 45, 105, 114, 45, 49,
  52, 52>>, <<105, 115, 111, 56, 56, 53, 57, 45, 53>>, <<105, 115, 111, 56,
  56, 53, 57, 53>>, <<105, 115, 111, 95, 56, 56, 53, 57, 45, 53>>, <<105,
  115, 111, 95, 56, 56, 53, 57, 45, 53, 58, 49, 57, 56, 56>>, <<105, 115,
  111, 45, 105, 114, 32, 49, 52, 52>>>>,
  \* ISO_IR_127: ISO_IR_127_Names (lines 261-279)
  <<<<97, 114, 97, 98, 105, 99>>, <<97, 115, 109, 111, 45, 55, 48, 56>>,
  <<99, 115, 105, 115, 111, 56, 56, 53, 57, 54, 101>>, <<99, 115, 105, 115,
  111, 56, 56, 53, 57, 54, 105>>, <<99, 115, 105, 115, 111, 108, 97, 116,
  105, 110, 97, 114, 97, 98, 105, 99>>, <<101, 99, 109, 97, 45, 49, 49,
  52>>, <<105, 115, 111, 45, 56, 56, 53, 57, 45, 54>>, <<105, 115, 111, 45,
  56, 56, 53, 57, 45, 54, 45, 101>>, <<105, 115, 111, 45, 56, 56, 53, 57,
  45, 54, 45, 105>>, <<105, 115, 111, 45, 105, 114, 45, 49, 50, 55>>, <<105,
  115, 111, 56, 56, 53, 57, 45, 54>>, <<105, 115, 111, 56, 56, 53, 57, 54>>,
  <<105, 115, 111, 95, 56, 56, 53, 57, 45, 54>>, <<105, 115, 111, 95, 56,
  56, 53, 57, 45, 54, 58, 49, 57, 56, 55>>, <<105, 115, 111, 45, 105, 114,
  32, 49, 50, 55>>>>,
  \* ISO_IR_126: ISO_IR_126_Names (lines 281-297)
  <<<<99, 115, 105, 115, 111, 108, 97, 116, 105, 110, 103, 114, 101, 101,
  107>>, <<101, 99, 109, 97, 45, 49, 49, 56>>, <<101, 108, 111, 116, 95, 57,
  50, 56>>, <<103, 114, 101, 101, 107>>, <<103, 114, 101, 101, 107, 56>>,
  <<105, 115, 111, 45, 56, 56, 53, 57, 45, 55>>, <<105, 115, 111, 45, 105,
  114, 45, 49, 50, 54>>, <<105, 115, 111, 56, 56, 53, 57, 45, 55>>, <<105,
  115, 111, 56, 56, 53, 57, 55>>, <<105, 115, 111, 95, 56, 56, 53, 57, 45,
  55>>, <<105, 115, 111, 95, 56, 56, 53, 57, 45, 55, 58, 49, 57, 56, 55>>,
  <<115, 117, 110, 95, 101, 117, 95, 103, 114, 101, 101, 107>>, <<105, 115,
  111, 45, 105, 114, 32, 49, 50, 54>>>>,
  \* ISO_IR_138: ISO_IR_138_Names (lines 299-313)
  <<<<99, 115, 105, 115, 111, 56, 56, 53, 57, 56, 101>>, <<99, 115, 105,
  115, 111, 108, 97, 116, 105, 110, 104, 101, 98, 114, 101, 119>>, <<104,
  101, 98, 114, 101, 119>>, <<105, 115, 111, 45, 56, 56, 53, 57, 45, 56>>,
  <<105, 115, 111, 45, 56, 56, 53, 57, 45, 56, 45, 101>>, <<105, 115, 111,
  45, 105, 114, 45, 49, 51, 56>>, <<105, 115, 111, 56, 56, 53, 57, 45, 56>>,
  <<105, 115, 111, 56, 56, 53, 57, 56>>, <<105, 115, 111, 95, 56, 56, 53,
  57, 45, 56>>, <<105, 115, 111, 95, 56, 56, 53, 57, 45, 56, 58, 49, 57, 56,
  56>>, <<105, 115, 111, 45, 105, 114, 32, 49, 51, 56>>>>,
  \* ISO_IR_148: ISO_IR_148_Names (lines 315-328)
  <<<<99, 115, 105, 115, 111, 108, 97, 116, 105, 110, 53>>, <<105, 115, 111,
  45, 56, 56, 53, 57, 45, 57>>, <<105, 115, 111, 45, 105, 114, 45, 49, 52,
  56>>, <<105, 115, 111, 56, 56, 53, 57, 45, 57>>, <<105, 115, 111, 56, 56,
  53, 57, 57>>, <<105, 115, 111, 95, 56, 56, 53, 57, 45, 57>>, <<105, 115,
  111, 95, 56, 56, 53, 57, 45, 57, 58, 49, 57, 56, 57>>, <<108, 53>>, <<108,
  97, 116, 105, 110, 53>>, <<105, 115, 111, 45, 105, 114, 32, 49, 52,
  56>>>>,
  \* ISO_IR_166: ISO_IR_166_Names (lines 330-338)
  <<<<100, 111, 115, 45, 56, 55, 52>>, <<105, 115, 111, 45, 56, 56, 53, 57,
  45, 49, 49>>, <<105, 115, 111, 45, 105, 114, 45, 49, 54, 54>>, <<105, 115,
  111, 56, 56, 53, 57, 45, 49, 49>>, <<105, 115, 111, 56, 56, 53, 57, 49,
  49>>, <<116, 105, 115, 45, 54, 50, 48>>>>,
  \* ISO_IR_13: ISO_IR_13_Names (lines 340-346)
  <<<<105, 115, 111, 45, 105, 114, 45, 49, 51>>, <<105, 115, 111, 45, 105,
  114, 45, 49, 52>>, <<106, 105, 115, 95, 120, 48, 50, 48, 49>>, <<120, 48,
  50, 48, 49>>>>,
  \* ISO_IR_13: NULL (lines none)
  <<>>,
  \* ISO_IR_13: NULL (lines none)
  <<>>,
  \* ISO_2022_IR_6: ISO_2022_Names (lines 348-351)
  <<<<105, 115, 111, 45, 50, 48, 50, 50>>>>,
  \* ISO_2022_IR_13: NULL (lines none)
  <<>>,
  \* ISO_2022_IR_87: ISO_IR_87_Names (lines 468-475)
  <<<<99, 115, 105, 115, 111, 50, 48, 50, 50, 106, 112>>, <<105, 115, 111,
  45, 50, 48, 50, 50, 45, 106, 112>>, <<105, 115, 111, 45, 105, 114, 45, 56,
  55>>, <<105, 115, 111, 50, 48, 50, 50, 95, 106, 112>>, <<106, 105,
  115>>>>,
  \* ISO_2022_IR_87: NULL (lines none)
  <<>>,
  \* ISO_2022_IR_159: ISO_IR_159_Names (lines 477-484)
  <<<<105, 115, 111, 45, 50, 48, 50, 50, 45, 106, 112, 45, 49>>, <<105, 115,
  111, 45, 50, 48, 50, 50, 45, 106, 112, 45, 50>>, <<105, 115, 111, 45, 105,
  114, 45, 49, 53, 57>>, <<105, 115, 111, 50, 48, 50, 50, 95, 106, 112, 95,
  49>>, <<105, 115, 111, 50, 48, 50, 50, 95, 106, 112, 95, 50>>>>,
  \* ISO_2022_IR_58: ISO_IR_58_Names (lines 437-447)
  <<<<99, 115, 103, 98, 50, 51, 49, 50>>, <<99, 115, 105, 115, 111, 53, 56,
  103, 98, 50, 51, 49, 50, 56, 48>>, <<103, 98, 50, 51, 49, 50>>, <<103, 98,
  95, 50, 51, 49, 50>>, <<103, 98, 95, 50, 51, 49, 50, 45, 56, 48>>, <<105,
  115, 111, 45, 105, 114, 45, 53, 56>>, <<105, 115, 111, 32, 50, 48, 50, 50,
  32, 103, 98, 50, 51, 49, 50>>>>,
  \* ISO_2022_IR_58: NULL (lines none)
  <<>>,
  \* X_GB2312: NULL (lines none)
  <<>>,
  \* ISO_2022_IR_149: ISO_IR_149_Names (lines 456-466)
  <<<<99, 115, 107, 115, 99, 53, 54, 48, 49, 49, 57, 56, 55>>, <<105, 115,
  111, 45, 105, 114, 45, 49, 52, 57>>, <<105, 115, 111, 95, 105, 114, 32,
  49, 52, 57>>, <<107, 111, 114, 101, 97, 110>>, <<107, 115, 95, 99, 95, 53,
  54, 48, 49, 45, 49, 57, 56, 55>>, <<107, 115, 95, 99, 95, 53, 54, 48, 49,
  45, 49, 57, 56, 57>>, <<107, 115, 99, 53, 54, 48, 49>>, <<107, 115, 99,
  95, 53, 54, 48, 49>>>>,
  \* X_EUCKR: EUCKR_Names (lines 449-454)
  <<<<99, 115, 101, 117, 99, 107, 114>>, <<101, 117, 99, 45, 107, 114>>,
  <<119, 105, 110, 100, 111, 119, 115, 45, 57, 52, 57>>>>,
  \* ISO_IR_100: ISO_IR_100_Names (lines 185-200)
  <<<<99, 112, 56, 49, 57>>, <<99, 115, 105, 115, 111, 108, 97, 116, 105,
  110, 49>>, <<105, 98, 109, 56, 49, 57>>, <<105, 115, 111, 45, 56, 56, 53,
  57, 45, 49>>, <<105, 115, 111, 45, 105, 114, 45, 49, 48, 48>>, <<105, 115,
  111, 56, 56, 53, 57, 45, 49>>, <<105, 115, 111, 56, 56, 53, 57, 49>>,
  <<105, 115, 111, 95, 56, 56, 53, 57, 45, 49>>, <<105, 115, 111, 95, 56,
  56, 53, 57, 45, 49, 58, 49, 57, 56, 55>>, <<108, 49>>, <<108, 97, 116,
  105, 110, 49>>, <<105, 115, 111, 45, 105, 114, 32, 49, 48, 48>>>>,
  \* ISO_IR_126: ISO_IR_126_Names (lines 281-297)
  <<<<99, 115, 105, 115, 111, 108, 97, 116, 105, 110, 103, 114, 101, 101,
  107>>, <<101, 99, 109, 97, 45, 49, 49, 56>>, <<101, 108, 111, 116, 95, 57,
  50, 56>>, <<103, 114, 101, 101, 107>>, <<103, 114, 101, 101, 107, 56>>,
  <<105, 115, 111, 45, 56, 56, 53, 57, 45, 55>>, <<105, 115, 111, 45, 105,
  114, 45, 49, 50, 54>>, <<105, 115, 111, 56, 56, 53, 57, 45, 55>>, <<105,
  115, 111, 56, 56, 53, 57, 55>>, <<105, 115, 111, 95, 56, 56, 53, 57, 45,
  55>>, <<105, 115, 111, 95, 56, 56, 53, 57, 45, 55, 58, 49, 57, 56, 55>>,
  <<115, 117, 110, 95, 101, 117, 95, 103, 114, 101, 101, 107>>, <<105, 115,
  111, 45, 105, 114, 32, 49, 50, 54>>>>,
  \* ISO_IR_192: ISO_IR_192_Names (lines 413-421)
  <<<<105, 115, 111, 45, 105, 114, 45, 49, 57, 50>>, <<117, 110, 105, 99,
  111, 100, 101, 45, 49, 45, 49, 45, 117, 116, 102, 45, 56>>, <<117, 116,
  102, 45, 56>>, <<117, 116, 102, 56>>, <<105, 115, 111, 32, 50, 48, 50, 50,
  32, 105, 114, 32, 49, 57, 50>>>>,
  \* GB18030: GB18030_Names (lines 423-426)
  <<<<103, 98, 49, 56, 48, 51, 48>>>>,
  \* GBK: GBK_Names (lines 428-435)
  <<<<99, 104, 105, 110, 101, 115, 101>>, <<103, 98, 107>>, <<120, 45, 103,
  98, 107>>, <<105, 115, 111, 32, 50, 48, 50, 50, 32, 103, 98, 107>>>>,
  \* X_LATIN6: LATIN6_Names (lines 353-363)
  <<<<99, 115, 105, 115, 111, 108, 97, 116, 105, 110, 54>>, <<105, 115, 111,
  45, 56, 56, 53, 57, 45, 49, 48>>, <<105, 115, 111, 45, 105, 114, 45, 49,
  53, 55>>, <<105, 115, 111, 56, 56, 53, 57, 45, 49, 48>>, <<105, 115, 111,
  56, 56, 53, 57, 49, 48>>, <<105, 115, 111, 95, 56, 56, 53, 57, 45, 49,
  48>>, <<108, 54>>, <<108, 97, 116, 105, 110, 54>>>>,
  \* X_LATIN7: LATIN7_Names (lines 365-375)
  <<<<99, 115, 105, 115, 111, 108, 97, 116, 105, 110, 55>>, <<105, 115, 111,
  45, 56, 56, 53, 57, 45, 49, 51>>, <<105, 115, 111, 45, 105, 114, 45, 49,
  55, 57>>, <<105, 115, 111, 56, 56, 53, 57, 45, 49, 51>>, <<105, 115, 111,
  56, 56, 53, 57, 49, 51>>, <<105, 115, 111, 95, 56, 56, 53, 57, 45, 49,
  51>>, <<108, 55>>, <<108, 97, 116, 105, 110, 55>>>>,
  \* X_LATIN8: LATIN8_Names (lines 377-387)
  <<<<99, 115, 105, 115, 111, 108, 97, 116, 105, 110, 56>>, <<105, 115, 111,
  45, 56, 56, 53, 57, 45, 49, 52>>, <<105, 115, 111, 45, 105, 114, 45, 49,
  57, 57>>, <<105, 115, 111, 56, 56, 53, 57, 45, 49, 52>>, <<105, 115, 111,
  56, 56, 53, 57, 49, 52>>, <<105, 115, 111, 95, 56, 56, 53, 57, 45, 49,
  52>>, <<108, 56>>, <<108, 97, 116, 105, 110, 56>>>>,
  \* X_LATIN9: LATIN9_Names (lines 389-399)
  <<<<99, 115, 105, 115, 111, 108, 97, 116, 105, 110, 57>>, <<105, 115, 111,
  45, 56, 56, 53, 57, 45, 49, 53>>, <<105, 115, 111, 45, 105, 114, 45, 50,
  48, 51>>, <<105, 115, 111, 56, 56, 53, 57, 45, 49, 53>>, <<105, 115, 111,
  56, 56, 53, 57, 49, 53>>, <<105, 115, 111, 95, 56, 56, 53, 57, 45, 49,
  53>>, <<108, 57>>, <<108, 97, 116, 105, 110, 57>>>>,
  \* X_LATIN10: LATIN10_Names (lines 401-411)
  <<<<99, 115, 105, 115, 111, 108, 97, 116, 105, 110, 49, 48>>, <<105, 115,
  111, 45, 56, 56, 53, 57, 45, 49, 54>>, <<105, 115, 111, 45, 105, 114, 45,
  50, 50, 54>>, <<105, 115, 111, 56, 56, 53, 57, 45, 49, 54>>, <<105, 115,
  111, 56, 56, 53, 57, 49, 54>>, <<105, 115, 111, 95, 56, 56, 53, 57, 45,
  49, 54>>, <<108, 49, 48>>, <<108, 97, 116, 105, 110, 49, 48>>>>,
  \* X_CP874: CP874_Names (lines 486-489)
  <<<<119, 105, 110, 100, 111, 119, 115, 45, 56, 55, 52>>>>,
  \* X_CP1250: CP1250_Names (lines 491-496)
  <<<<99, 112, 49, 50, 53, 48>>, <<119, 105, 110, 100, 111, 119, 115, 45,
  49, 50, 53, 48>>, <<120, 45, 99, 112, 49, 50, 53, 48>>>>,
  \* X_CP1251: CP1251_Names (lines 498-503)
  <<<<99, 112, 49, 50, 53, 49>>, <<119, 105, 110, 100, 111, 119, 115, 45,
  49, 50, 53, 49>>, <<120, 45, 99, 112, 49, 50, 53, 49>>>>,
  \* X_CP1252: CP1252_Names (lines 505-510)
  <<<<99, 112, 49, 50, 53, 50>>, <<119, 105, 110, 100, 111, 119, 115, 45,
  49, 50, 53, 50>>, <<120, 45, 99, 112, 49, 50, 53, 50>>>>,
  \* X_CP1253: CP1253_Names (lines 512-517)
  <<<<99, 112, 49, 50, 53, 51>>, <<119, 105, 110, 100, 111, 119, 115, 45,
  49, 50, 53, 51>>, <<120, 45, 99, 112, 49, 50, 53, 51>>>>,
  \* X_CP1254: CP1254_Names (lines 519-524)
  <<<<99, 112, 49, 50, 53, 52>>, <<119, 105, 110, 100, 111, 119, 115, 45,
  49, 50, 53, 52>>, <<120, 45, 99, 112, 49, 50, 53, 52>>>>,
  \* X_CP1255: CP1255_Names (lines 526-531)
  <<<<99, 112, 49, 50, 53, 53>>, <<119, 105, 110, 100, 111, 119, 115, 45,
  49, 50, 53, 53>>, <<120, 45, 99, 112, 49, 50, 53, 53>>>>,
  \* X_CP1256: CP1256_Names (lines 533-538)
  <<<<99, 112, 49, 50, 53, 54>>, <<119, 105, 110, 100, 111, 119, 115, 45,
  49, 50, 53, 54>>, <<120, 45, 99, 112, 49, 50, 53, 54>>>>,
  \* X_CP1257: CP1257_Names (lines 540-545)
  <<<<99, 112, 49, 50, 53, 55>>, <<119, 105, 110, 100, 111, 119, 115, 45,
  49, 50, 53, 55>>, <<120, 45, 99, 112, 49, 50, 53, 55>>>>,
  \* X_CP1258: CP1258_Names (lines 547-552)
  <<<<99, 112, 49, 50, 53, 56>>, <<119, 105, 110, 100, 111, 119, 115, 45,
  49, 50, 53, 56>>, <<120, 45, 99, 112, 49, 50, 53, 56>>>>,
  \* X_BIG5: BIG5_Names (lines 554-565)
  <<<<98, 53>>, <<98, 105, 103, 53>>, <<98, 105, 103, 53, 45, 101, 116, 101,
  110>>, <<99, 110, 45, 98, 105, 103, 53>>, <<99, 115, 98, 105, 103, 53>>,
  <<120, 45, 120, 45, 98, 105, 103, 53>>, <<105, 115, 111, 32, 50, 48, 50,
  50, 32, 98, 53>>, <<105, 115, 111, 32, 50, 48, 50, 50, 32, 98, 105, 103,
  53>>>>,
  \* X_SJIS: SJIS_Names (lines 567-577)
  <<<<99, 115, 115, 104, 105, 102, 116, 106, 105, 115>>, <<109, 115, 57, 51,
  50>>, <<109, 115, 95, 107, 97, 110, 106, 105>>, <<115, 104, 105, 102, 116,
  45, 106, 105, 115>>, <<115, 104, 105, 102, 116, 95, 106, 105, 115>>,
  <<115, 106, 105, 115>>, <<119, 105, 110, 100, 111, 119, 115, 45, 51, 49,
  106>>, <<120, 45, 115, 106, 105, 115>>>>,
  \* X_EUCJP: EUCJP_Names (lines 579-584)
  <<<<99, 115, 101, 117, 99, 112, 107, 100, 102, 109, 116, 106, 97, 112, 97,
  110, 101, 115, 101>>, <<101, 117, 99, 45, 106, 112>>, <<120, 45, 101, 117,
  99, 45, 106, 112>>>>,
  \* X_KOI8: KOI8_Names (lines 586-590)
  <<<<107, 111, 105>>, <<107, 111, 105, 56>>>>
>>


-----------------------------------------------------------------------------
(* The decoders as whole functions: the routine AnyToUTF8 selects, one     *)
(* iteration of any routine, and the loop that runs a routine to its       *)
(* return.  A call names the routine with the arguments it takes besides   *)
(* the text and the mode.                                                  *)

AnyToUTF8(k) ==
  IF k = CS.ISO_IR_6 THEN "ASCIIToUTF8"
  ELSE IF IsISO2022(k) THEN "ISO2022ToUTF8"
  ELSE IF IsISO8859(k) THEN "ISO8859ToUTF8"
  ELSE CASE k = CS.X_EUCKR -> "EUCKRToUTF8"
         [] k = CS.X_GB2312 -> "GB2312ToUTF8"
         [] k = CS.ISO_IR_192 -> "UTF8ToUTF8"
         [] k = CS.GB18030 -> "GB18030ToUTF8"
         [] k = CS.GBK -> "GBKToUTF8"
         [] k = CS.X_BIG5 -> "Big5ToUTF8"
         [] k = CS.X_EUCJP -> "EUCJPToUTF8"
         [] k = CS.X_SJIS -> "SJISToUTF8"
         [] OTHER -> "SingleByteToUTF8"

Call(fn, k) == [fn |-> fn, key |-> k, csGL |-> 0, csGR |-> 0, nxt |-> 0]

DecoderStep(call, t, c, m) ==
  CASE call.fn = "ASCIIToUTF8" -> ASCIIToUTF8(t, c, m)
    [] call.fn = "UTF8ToUTF8" -> UTF8ToUTF8(t, c, m)
    [] call.fn = "UnknownToUTF8" -> UnknownToUTF8(t, c, m, call.nxt)
    [] call.fn = "SingleByteToUTF8" -> SingleByteToUTF8(call.key, t, c, m)
    [] call.fn = "ISO8859ToUTF8" -> ISO8859ToUTF8(call.key, t, c, m)
    [] call.fn = "SJISToUTF8" -> SJISToUTF8(t, c, m)
    [] call.fn = "EUCJPToUTF8" -> EUCJPToUTF8(t, c, m)
    [] call.fn = "Big5ToUTF8" -> Big5ToUTF8(t, c, m)
    [] call.fn = "GBKToUTF8" -> GBKToUTF8(t, c, m)
    [] call.fn = "GB18030ToUTF8" -> GB18030ToUTF8(t, c, m)
    [] call.fn = "GB2312ToUTF8" -> GB2312ToUTF8(t, c, m)
    [] call.fn = "EUCKRToUTF8" -> EUCKRToUTF8(t, c, m)
    [] call.fn = "JISXToUTF8" -> JISXToUTF8(call.csGL, call.csGR, t, c, m)

\* "errpos = (errpos ? errpos : lastpos)"
FirstError(e, at) == IF e # None \/ at = None THEN e ELSE at

\* the value a routine returns when its loop ends with cursor c
DecoderReturn(fn, e, c) ==
  IF fn = "UnknownToUTF8" THEN 0
  ELSE IF e # None THEN e ELSE c

RECURSIVE DecoderLoop(_, _, _, _, _, _)
DecoderLoop(call, t, m, c, out, e) ==
  IF c = Len(t) THEN [s |-> out, n |-> DecoderReturn(call.fn, e, c)]
  ELSE LET r == DecoderStep(call, t, c, m)
           e1 == FirstError(e, r.at)
       IN IF r.brk
          THEN [s |-> out \o r.emit, n |-> DecoderReturn(call.fn, e1, r.cp)]
          ELSE DecoderLoop(call, t, m, r.cp, out \o r.emit, e1)

RunDecoder(call, t, m) == DecoderLoop(call, t, m, 0, <<>>, None)

-----------------------------------------------------------------------------
(* ISO 2022: the state bitfield and the escape sequences.                  *)

ST == [ ALTERNATE_CS |-> 255,
        MULTIBYTE_G0 |-> 256, MULTIBYTE_G1 |-> 512,
        MULTIBYTE_G2 |-> 1024, MULTIBYTE_G3 |-> 2048,
        CHARSET96_GX |-> 4096, CHARSET96_G1 |-> 8192,
        CHARSET96_G2 |-> 16384, CHARSET96_G3 |-> 32768 ]

\* state |= mask and state &= ~mask
SetBits(st, mask) == BitOr(st, mask)
ClearBits(st, mask) == st - BitAnd(st, mask)

IsEndLine(c) == c >= 10 /\ c <= 13

SetErrorPosition(n, i) == IF i < n THEN i ELSE n

\* the first offset from i on whose byte is outside lo..hi (or the end)
RECURSIVE SkipRange(_, _, _, _)
SkipRange(t, i, lo, hi) ==
  IF i < Len(t) /\ t[i+1] >= lo /\ t[i+1] <= hi
  THEN SkipRange(t, i + 1, lo, hi) ELSE i

\* length of the escape sequence that starts at offset i (after the ESC)
EscapeCodeLength(t, i) ==
  LET a == IF i < Len(t) /\ t[i+1] = 91 THEN SkipRange(t, i + 1, 48, 63)
           ELSE i
      b == SkipRange(t, a, 32, 47)
  IN IF b < Len(t) /\ t[b+1] >= 64 /\ t[b+1] <= 126 THEN b + 1 - i ELSE 0

Typed(ty, st) == [type |-> ty, state |-> st]

EscapeCode(code, st) ==
  LET l == Len(code) IN
  IF l = 1 THEN
    Typed(CASE code[1] = 78 -> "CODE_SS2" [] code[1] = 79 -> "CODE_SS3"
            [] code[1] = 110 -> "CODE_LS2" [] code[1] = 111 -> "CODE_LS3"
            [] code[1] = 126 -> "CODE_LS1R" [] code[1] = 125 -> "CODE_LS2R"
            [] code[1] = 124 -> "CODE_LS3R" [] OTHER -> "CODE_OTHER", st)
  ELSE IF l = 2 THEN
    CASE code[1] = 32 -> Typed("CODE_ACS", st)
      [] code[1] = 33 -> Typed("CODE_CZD", st)
      [] code[1] = 34 -> Typed("CODE_C1D", st)
      [] code[1] = 37 -> Typed("CODE_DOCS", st)
      [] code[1] = 38 -> Typed("CODE_IRR", st)
      [] code[1] = 39 -> Typed("CODE_ERROR", st)
      [] code[1] = 36 -> Typed("CODE_GZD", SetBits(st, ST.MULTIBYTE_G0))
      [] code[1] = 40 -> Typed("CODE_GZD", ClearBits(st, ST.MULTIBYTE_G0))
      [] code[1] = 41 ->
           Typed("CODE_G1D", ClearBits(st, ST.MULTIBYTE_G1 + ST.CHARSET96_G1))
      [] code[1] = 42 ->
           Typed("CODE_G2D", ClearBits(st, ST.MULTIBYTE_G2 + ST.CHARSET96_G2))
      [] code[1] = 43 ->
           Typed("CODE_G3D", ClearBits(st, ST.MULTIBYTE_G2 + ST.CHARSET96_G2))
      [] code[1] = 44 -> Typed("CODE_ERROR", st)
      [] code[1] = 45 ->
           Typed("CODE_G1D",
                 SetBits(ClearBits(st, ST.MULTIBYTE_G1), ST.CHARSET96_G1))
      [] code[1] = 46 ->
           Typed("CODE_G2D",
                 SetBits(ClearBits(st, ST.MULTIBYTE_G2), ST.CHARSET96_G2))
      [] code[1] = 47 ->
           Typed("CODE_G3D",
                 SetBits(ClearBits(st, ST.MULTIBYTE_G3), ST.CHARSET96_G3))
      [] OTHER -> Typed("CODE_OTHER", st)
  ELSE IF l = 3 /\ code[1] = 36 THEN
    CASE code[2] = 40 -> Typed("CODE_GZD", SetBits(st, ST.MULTIBYTE_G0))
      [] code[2] = 41 ->
           Typed("CODE_G1D",
                 ClearBits(SetBits(st, ST.MULTIBYTE_G1), ST.CHARSET96_G1))
      [] code[2] = 42 ->
           Typed("CODE_G2D",
                 ClearBits(SetBits(st, ST.MULTIBYTE_G2), ST.CHARSET96_G1))
      [] code[2] = 43 ->
           Typed("CODE_G3D",
                 ClearBits(SetBits(st, ST.MULTIBYTE_G3), ST.CHARSET96_G1))
      [] code[2] = 45 ->
           Typed("CODE_G1D", SetBits(st, ST.MULTIBYTE_G1 + ST.CHARSET96_G1))
      [] code[2] = 46 ->
           Typed("CODE_G2D", SetBits(st, ST.MULTIBYTE_G2 + ST.CHARSET96_G2))
      [] code[2] = 47 ->
           Typed("CODE_G3D", SetBits(st, ST.MULTIBYTE_G3 + ST.CHARSET96_G3))
      [] OTHER -> Typed("CODE_ERROR", st)
  ELSE IF l = 3 /\ code[1] = 37 /\ code[2] = 47 THEN Typed("CODE_DOCS", st)
  ELSE IF l > 0 THEN
    IF code[1] >= 32 /\ code[1] <= 47 /\ code[1] # 35
    THEN Typed("CODE_ERROR", st) ELSE Typed("CODE_OTHER", st)
  ELSE Typed("CODE_ERROR", st)

\* strncmp(code, esc, l) == 0 for a code of l non-zero bytes
EscapeCodeMatches(code, esc) ==
  Len(esc) >= Len(code) /\ SubSeq(esc, 1, Len(code)) = code

CharacterSetFromEscapeCode(code) ==
  IF \E r \in 1..Len(Charsets) : EscapeCodeMatches(code, Charsets[r].EscapeCode)
  THEN LET r == CHOOSE r \in 1..Len(Charsets) :
                  /\ EscapeCodeMatches(code, Charsets[r].EscapeCode)
                  /\ \A q \in 1..(r-1) :
                        ~EscapeCodeMatches(code, Charsets[q].EscapeCode)
       IN Charsets[r].Key
  ELSE CS.Unknown

\* a variant that takes every key of the Japanese base as one that has
\* ISO IR 13
InitISO2022AnyJP(k) ==
  IF k <= CS.ISO_2022_MAX THEN
    LET g1 == BitAnd(k, CS.ISO_2022_BASE)
        jp == g1 <= CS.ISO_2022_JP_BASE /\ g1 # 0
    IN [G |-> <<IF jp THEN CS.ISO_IR_13 ELSE CS.ISO_2022_IR_6,
                IF jp THEN CS.ISO_IR_13 ELSE g1, CS.Unknown, CS.Unknown>>,
        state |-> IF g1 >= BitAnd(CS.ISO_2022_IR_149, CS.ISO_2022_BASE)
                  THEN ST.MULTIBYTE_G1
                  ELSE IF g1 >= CS.ISO_IR_100 THEN ST.CHARSET96_G1 ELSE 0]
  ELSE [G |-> <<CS.ISO_2022_IR_6, CS.Unknown, CS.Unknown, CS.Unknown>>,
        state |-> k]

\* charsetG is <<G0, G1, G2, G3>>
InitISO2022(k) ==
  IF k <= CS.ISO_2022_MAX THEN
    LET g1 == BitAnd(k, CS.ISO_2022_BASE)
        st == IF g1 >= BitAnd(CS.ISO_2022_IR_149, CS.ISO_2022_BASE)
              THEN ST.MULTIBYTE_G1
              ELSE IF g1 >= CS.ISO_IR_100 THEN ST.CHARSET96_G1 ELSE 0
        g1jp == IF g1 <= CS.ISO_2022_JP_BASE THEN BitAnd(g1, CS.ISO_IR_13)
                ELSE g1
        g0 == IF g1 <= CS.ISO_2022_JP_BASE /\ g1jp = CS.ISO_IR_13
              THEN CS.ISO_IR_13 ELSE CS.ISO_2022_IR_6
    IN [G |-> <<g0, g1jp, CS.Unknown, CS.Unknown>>, state |-> st]
  ELSE [G |-> <<CS.ISO_2022_IR_6, CS.Unknown, CS.Unknown, CS.Unknown>>,
        state |-> k]


-----------------------------------------------------------------------------
(* ISO2022ToUTF8.  The decoder state d is the record of the locals         *)
(* [i, s, n, G, state, prevchar]; each operator below is one pass through  *)
(* one of the three inner parts of the main loop: the conversion of a      *)
(* segment, one control character, one escape sequence.                    *)

IsDelimiter(c) == c = 27 \/ (c >= 10 /\ c <= 15)

RECURSIVE NextDelimiter(_, _)
NextDelimiter(t, j) ==
  IF j < Len(t) /\ ~IsDelimiter(t[j+1]) THEN NextDelimiter(t, j + 1) ELSE j

\* the routine that converts a segment (lines 3435-3473)
SegmentCall(d, nxt) ==
  IF BitAnd(d.state, ST.ALTERNATE_CS) # 0 THEN
    LET k == BitAnd(d.state, ST.ALTERNATE_CS) IN Call(AnyToUTF8(k), k)
  ELSE IF d.G[1] = CS.ISO_2022_IR_6 /\ d.G[2] # CS.ISO_IR_13 THEN
    LET k == BitAnd(d.G[2], CS.ISO_2022_BASE) IN Call(AnyToUTF8(k), k)
  ELSE IF d.G[1] \in {CS.ISO_IR_13, CS.ISO_2022_IR_6, CS.ISO_2022_IR_13,
                      CS.ISO_2022_IR_87, CS.ISO_2022_IR_159,
                      CS.ISO_2022_IR_149, CS.ISO_2022_IR_58} THEN
    [fn |-> "JISXToUTF8", key |-> 0, csGL |-> d.G[1], csGR |-> d.G[2],
     nxt |-> 0]
  ELSE IF BitAnd(d.state, ST.MULTIBYTE_G0) # 0 THEN
    [fn |-> "UnknownToUTF8", key |-> 0, csGL |-> 0, csGR |-> 0, nxt |-> nxt]
  ELSE Call("ASCIIToUTF8", 0)

ISO2022Segment(t, m, pd, d) ==
  LET i == d.i
      j == NextDelimiter(t, i)
      nxt == IF j < Len(t) THEN t[j+1] ELSE pd
      r == RunDecoder(SegmentCall(d, nxt), Slice(t, i, j), m)
  IN [d EXCEPT !.i = j, !.s = @ \o r.s,
               !.n = IF r.n # j - i THEN SetErrorPosition(@, i + r.n) ELSE @,
               !.prevchar = 0]

\* a variant that takes every LF for the end of a line
IsNL(prevchar, c) == c = 10

\* "CRNL resets the ISO 2022 state" (line 3493)
IsCRNL(prevchar, c) == prevchar = 13 /\ c = 10

ISO2022Control(k, t, d) ==
  LET c == t[d.i+1]
      shiftInOut == c = 14 \/ c = 15
      init == IF ~shiftInOut /\ IsCRNL(d.prevchar, c)
              THEN InitISO2022(k) ELSE [G |-> d.G, state |-> d.state]
  IN [i |-> d.i + 1, s |-> d.s \o <<c>>,
      n |-> IF shiftInOut THEN SetErrorPosition(d.n, d.i) ELSE d.n,
      G |-> init.G, state |-> init.state, prevchar |-> c]

\* is the byte b, moved to GR, in the range of a shifted character?
InShiftRange(b, charset96) ==
  LET cGR == BitOr(b, 128) IN
  (cGR >= 161 /\ cGR <= 174) \/ (charset96 /\ cGR >= 160)

\* a variant that takes every byte in the range, however many
RECURSIVE ShiftCountUnbounded(_, _, _, _)
ShiftCountUnbounded(t, i, bytecount, charset96) ==
  IF i < Len(t) /\ InShiftRange(t[i+1], charset96)
  THEN 1 + ShiftCountUnbounded(t, i + 1, bytecount, charset96)
  ELSE 0

\* the number of bytes, at most bytecount, that the single shift takes from
\* offset i (lines 3612-3622)
ShiftCount(t, i, bytecount, charset96) ==
  IF i < Len(t) /\ InShiftRange(t[i+1], charset96) THEN
    IF bytecount = 2 /\ i + 1 < Len(t) /\ InShiftRange(t[i+2], charset96)
    THEN 2 ELSE 1
  ELSE 0

\* what an escape sequence did besides designating: whether it failed, the
\* cursor after it, the characters it wrote and the error position
Escaped(fail, i, emit, n) == [fail |-> fail, i |-> i, emit |-> emit, n |-> n]

\* the conversion of the k shifted bytes at offset i (lines 3623-3634)
ShiftConvert(t, m, i, n, k, bytecount, cs) ==
  LET shiftchars == [q \in 1..k |-> BitOr(t[i+q], 128)]
      r == RunDecoder(Call(AnyToUTF8(cs), cs), shiftchars, m)
  IN Escaped(FALSE, i + k, r.s,
             IF r.n # bytecount THEN SetErrorPosition(n, i + r.n) ELSE n)

\* the single shift (lines 3601-3636) at offset i, after ESC N or ESC O
SingleShift(t, m, i, n, G, st, shift) ==
  LET bytecount == IF BitAnd(st, ST.MULTIBYTE_G0 * 2^shift) # 0 THEN 2 ELSE 1
      k == ShiftCount(t, i, bytecount,
                      BitAnd(st, ST.CHARSET96_GX * 2^shift) # 0)
  IN
  IF i < Len(t) /\ BitAnd(st, ST.ALTERNATE_CS) = 0 /\ k > 0
  THEN ShiftConvert(t, m, i, n, k, bytecount, G[shift+1])
  ELSE Escaped(TRUE, i, <<>>, n)

Designators == [CODE_GZD |-> 1, CODE_G1D |-> 2, CODE_G2D |-> 3, CODE_G3D |-> 4]

\* a variant that does not pass a failed escape sequence to the output
EscapeDropped(d, echo, other, r, G, st) ==
  [i |-> r.i, s |-> d.s \o other \o r.emit,
   n |-> IF r.fail THEN SetErrorPosition(r.n, d.i) ELSE r.n,
   G |-> G, state |-> st, prevchar |-> 0]

\* the end of the pass for an escape sequence (lines 3638-3645)
EscapeDone(d, echo, other, r, G, st) ==
  [i |-> r.i,
   s |-> d.s \o other \o r.emit \o (IF r.fail THEN echo ELSE <<>>),
   n |-> IF r.fail THEN SetErrorPosition(r.n, d.i) ELSE r.n,
   G |-> G, state |-> st, prevchar |-> 0]

\* the switch on the type of the escape code (lines 3527-3599) and the
\* single shift; i is the offset after the escape sequence
EscapeSwitch(t, m, d, escapeCode, i, e) ==
  LET echo == <<27>> \o escapeCode IN
  CASE e.type \in DOMAIN Designators ->
         LET cs == CharacterSetFromEscapeCode(escapeCode) IN
         EscapeDone(d, echo, <<>>, Escaped(cs = CS.Unknown, i, <<>>, d.n),
                    [d.G EXCEPT ![Designators[e.type]] = cs], e.state)
    [] e.type = "CODE_IRR" ->
         EscapeDone(d, echo, <<>>,
                    Escaped(escapeCode[2] # 64 \/ i = Len(t) \/ t[i+1] # 27,
                            i, <<>>, d.n),
                    d.G, e.state)
    [] e.type \in {"CODE_SS2", "CODE_SS3"} ->
         LET shift == IF e.type = "CODE_SS2" THEN 2 ELSE 3 IN
         EscapeDone(d, echo, <<>>,
                    IF d.G[shift+1] = CS.Unknown
                    THEN Escaped(TRUE, i, <<>>, d.n)
                    ELSE SingleShift(t, m, i, d.n, d.G, e.state, shift),
                    d.G, e.state)
    [] e.type = "CODE_OTHER" ->
         EscapeDone(d, echo, echo, Escaped(FALSE, i, <<>>, d.n), d.G, e.state)
    [] OTHER ->
         EscapeDone(d, echo, <<>>, Escaped(TRUE, i, <<>>, d.n), d.G, e.state)

ISO2022Escape(t, m, d) ==
  LET escapeLen == EscapeCodeLength(t, d.i + 1)
      escapeCode == Slice(t, d.i + 1, d.i + 1 + escapeLen)
  IN
  IF BitAnd(d.state, ST.ALTERNATE_CS) # 0
  THEN [d EXCEPT !.i = @ + 1 + escapeLen, !.s = @ \o <<27>> \o escapeCode,
                 !.prevchar = 0]
  ELSE EscapeSwitch(t, m, d, escapeCode, d.i + 1 + escapeLen,
                    EscapeCode(escapeCode, d.state))

\* one pass: the part of the loop that the byte under the cursor selects
ISO2022Step(k, t, m, pd, d) ==
  LET c == t[d.i+1] IN
  IF c >= 10 /\ c <= 15 THEN ISO2022Control(k, t, d)
  ELSE IF c = 27 THEN ISO2022Escape(t, m, d)
  ELSE ISO2022Segment(t, m, pd, d)

ISO2022Begin(k, t) ==
  LET init == InitISO2022(k) IN
  [i |-> 0, s |-> <<>>, n |-> Len(t), G |-> init.G, state |-> init.state,
   prevchar |-> 0]

RECURSIVE ISO2022Loop(_, _, _, _, _)
ISO2022Loop(k, t, m, pd, d) ==
  IF d.i < Len(t) THEN ISO2022Loop(k, t, m, pd, ISO2022Step(k, t, m, pd, d))
  ELSE [s |-> d.s, n |-> d.n]

ISO2022ToUTF8(k, t, m, pd) == ISO2022Loop(k, t, m, pd, ISO2022Begin(k, t))


-----------------------------------------------------------------------------
(* Inputs.  A text is the concatenation of at most MaxParts fragments; the *)
(* fragments of a key are characters, broken characters and controls of    *)
(* its encoding.                                                           *)

Modes == {"ignore", "replace", "escape"}

PadBytes == {0, 65}

TextsOver(frags) ==
  UNION {{Concat(p) : p \in [1..n -> frags]} : n \in 0..MaxParts}

DecodeKeys ==
  {CS.ISO_IR_6, CS.ISO_IR_13, CS.ISO_IR_100, CS.ISO_IR_126, CS.ISO_IR_192,
   CS.GB18030, CS.GBK, CS.X_GB2312, CS.X_EUCKR, CS.X_SJIS, CS.X_EUCJP,
   CS.X_BIG5}

Fragments(k) ==
  CASE k = CS.ISO_IR_6 -> {<<65>>, <<92>>, <<233>>}
    [] k = CS.ISO_IR_13 -> {<<65>>, <<92>>, <<177>>, <<128>>}
    [] k = CS.ISO_IR_100 -> {<<65>>, <<233>>, <<128>>, <<129>>}
    [] k = CS.ISO_IR_126 -> {<<65>>, <<193>>, <<174>>}
    [] k = CS.ISO_IR_192 ->
         {<<65>>, <<195, 169>>, <<237, 160, 128>>, <<237, 176, 128>>,
          <<240, 159, 152, 128>>, <<226, 130>>, <<192, 128>>,
          <<239, 191, 191>>, <<255>>}
    [] k = CS.GB18030 ->
         {<<65>>, <<129, 64>>, <<129, 92>>, <<129, 48, 129, 48>>,
          <<132, 49, 164, 55>>, <<144, 48, 129, 48>>, <<129>>, <<255>>}
    [] k = CS.GBK -> {<<65>>, <<129, 64>>, <<129, 92>>, <<176, 161>>,
                      <<129>>, <<255>>}
    [] k = CS.X_GB2312 -> {<<65>>, <<176, 161>>, <<161>>, <<129, 64>>}
    [] k = CS.X_EUCKR ->
         {<<65>>, <<176, 161>>, <<164, 161>>, <<129, 65>>, <<199>>,
          <<164, 212, 164, 161, 164, 191, 164, 212>>,
          <<164, 212, 164, 161, 164, 191, 164, 162>>,
          <<164, 212, 164, 161, 164, 212, 164, 212>>,
          <<164, 212, 164, 212, 164, 212, 164, 212>>}
    [] k = CS.X_SJIS -> {<<65>>, <<92>>, <<130, 160>>, <<129, 92>>, <<177>>,
                         <<129>>, <<128>>}
    [] k = CS.X_EUCJP -> {<<65>>, <<164, 162>>, <<142, 177>>,
                          <<143, 176, 161>>, <<143, 161>>, <<255>>}
    [] k = CS.X_BIG5 -> {<<65>>, <<164, 64>>, <<161, 64>>, <<129>>, <<255>>}

\* ISO 2022: data bytes, controls, escape sequences
Fragments2022 ==
  {<<65>>, <<193>>, <<36, 34>>,
   <<13>>, <<10>>, <<14>>,
   <<27, 78>>, <<27, 37, 71>>, <<27, 92>>}

\* ISO 2022: designations that a text can start with
Prefixes2022 == {<<>>, <<27, 36, 66>>, <<27, 46, 70>>, <<27, 36, 88>>}

Keys2022 == {CS.ISO_2022_IR_87, CS.ISO_2022_IR_13, CS.ISO_2022_IR_100}

Texts2022 == {a \o b : a \in Prefixes2022, b \in TextsOver(Fragments2022)}

-----------------------------------------------------------------------------
(* The decoding operations as a state machine.                             *)

NoEvent == [fn |-> "none"]

Routines ==
  {"ASCIIToUTF8", "UTF8ToUTF8", "SingleByteToUTF8", "ISO8859ToUTF8",
   "SJISToUTF8", "EUCJPToUTF8", "Big5ToUTF8", "GBKToUTF8", "GB18030ToUTF8",
   "GB2312ToUTF8", "EUCKRToUTF8", "ISO2022ToUTF8"}

InitCommon ==
  /\ mode = "replace"
  /\ pad \in PadBytes
  /\ pc = "idle"
  /\ cp = 0
  /\ s = <<>>
  /\ errpos = None
  /\ charsetG = <<CS.Unknown, CS.Unknown, CS.Unknown, CS.Unknown>>
  /\ state = 0
  /\ ev = NoEvent
  /\ aux = [ret |-> None, first |-> None, prevchar |-> 0]

Keys == DecodeKeys \cup Keys2022

Texts(k) == IF IsISO2022(k) THEN Texts2022 ELSE TextsOver(Fragments(k))

Init ==
  /\ key \in Keys
  /\ text \in Texts(key)
  /\ InitCommon

\* AnyToUTF8(text, l, s, mode): enter the routine for the key
EnterAnyToUTF8(m) ==
  /\ pc = "idle"
  /\ mode' = m
  /\ pc' = AnyToUTF8(key)
  /\ IF IsISO2022(key)
     THEN LET d == ISO2022Begin(key, text) IN
          /\ charsetG' = d.G
          /\ state' = d.state
          /\ errpos' = d.n
     ELSE UNCHANGED <<charsetG, state, errpos>>
  /\ UNCHANGED <<key, text, pad, cp, s, ev, aux>>

CallAnyToUTF8 == \E m \in Modes : EnterAnyToUTF8(m)

\* the effect of one iteration r of the loop of routine fn
Advance(fn, r) ==
  /\ cp' = r.cp
  /\ s' = s \o r.emit
  /\ errpos' = FirstError(errpos, r.at)
  /\ ev' = [fn |-> fn, start |-> cp, cp |-> r.cp, emit |-> r.emit,
            at |-> r.at, bad |-> r.bad, brk |-> r.brk]
  /\ pc' = IF r.brk THEN "done" ELSE pc
  /\ aux' = [aux EXCEPT
               !.first = IF @ = None /\ (r.bad \/ r.at # None) THEN cp ELSE @,
               !.ret = IF r.brk THEN DecoderReturn(fn, errpos', r.cp) ELSE @]
  /\ UNCHANGED <<key, mode, text, pad, charsetG, state>>

Iterate(fn) ==
  /\ pc = fn
  /\ cp # Len(text)
  /\ Advance(fn, DecoderStep(Call(fn, key), text, cp, mode))

ASCIIToUTF8Loop == Iterate("ASCIIToUTF8")
UTF8ToUTF8Loop == Iterate("UTF8ToUTF8")
SingleByteToUTF8Loop == Iterate("SingleByteToUTF8")
ISO8859ToUTF8Loop == Iterate("ISO8859ToUTF8")
SJISToUTF8Loop == Iterate("SJISToUTF8")
EUCJPToUTF8Loop == Iterate("EUCJPToUTF8")
Big5ToUTF8Loop == Iterate("Big5ToUTF8")
GBKToUTF8Loop == Iterate("GBKToUTF8")
GB18030ToUTF8Loop == Iterate("GB18030ToUTF8")
GB2312ToUTF8Loop == Iterate("GB2312ToUTF8")
EUCKRToUTF8Loop == Iterate("EUCKRToUTF8")

\* the loop of a routine ends and the routine returns
Return ==
  /\ pc \in Routines
  /\ cp = Len(text)
  /\ pc' = "done"
  /\ aux' = [aux EXCEPT !.ret = IF pc = "ISO2022ToUTF8" THEN errpos
                                ELSE DecoderReturn(pc, errpos, cp)]
  /\ UNCHANGED <<key, mode, text, pad, cp, s, errpos, charsetG, state, ev>>



-----------------------------------------------------------------------------
(* ISO2022ToUTF8 as a state machine: the locals i and n are the variables  *)
(* cp and errpos.                                                          *)

Locals2022 ==
  [i |-> cp, s |-> s, n |-> errpos, G |-> charsetG, state |-> state,
   prevchar |-> aux.prevchar]

Advance2022(part, d) ==
  /\ cp' = d.i
  /\ s' = d.s
  /\ errpos' = d.n
  /\ charsetG' = d.G
  /\ state' = d.state
  /\ aux' = [aux EXCEPT !.prevchar = d.prevchar]
  /\ ev' = [fn |-> part, start |-> cp, pre |-> Locals2022]
  /\ UNCHANGED <<key, mode, text, pad, pc>>

ISO2022SegmentPart ==
  /\ pc = "ISO2022ToUTF8"
  /\ cp < Len(text)
  /\ ~IsDelimiter(text[cp+1])
  /\ Advance2022("segment", ISO2022Segment(text, mode, pad, Locals2022))

ISO2022ControlPart ==
  /\ pc = "ISO2022ToUTF8"
  /\ cp < Len(text)
  /\ text[cp+1] >= 10 /\ text[cp+1] <= 15
  /\ Advance2022("control", ISO2022Control(key, text, Locals2022))

ISO2022EscapePart ==
  /\ pc = "ISO2022ToUTF8"
  /\ cp < Len(text)
  /\ text[cp+1] = 27
  /\ Advance2022("escape", ISO2022Escape(text, mode, Locals2022))

Next ==
  \/ CallAnyToUTF8
  \/ ASCIIToUTF8Loop
  \/ UTF8ToUTF8Loop
  \/ SingleByteToUTF8Loop
  \/ ISO8859ToUTF8Loop
  \/ SJISToUTF8Loop
  \/ EUCJPToUTF8Loop
  \/ Big5ToUTF8Loop
  \/ GBKToUTF8Loop
  \/ GB18030ToUTF8Loop
  \/ GB2312ToUTF8Loop
  \/ EUCKRToUTF8Loop
  \/ ISO2022SegmentPart
  \/ ISO2022ControlPart
  \/ ISO2022EscapePart
  \/ Return

Spec == Init /\ [][Next]_vars

-----------------------------------------------------------------------------
(* The encoders.  One iteration of each encoder loop reads one code from   *)
(* the UTF-8 text t at cursor c and gives the new cursor, the bytes        *)
(* appended to the output and the offset it records as an error (None when *)
(* it records none).  The reversed tables are the tables above, reversed.  *)

\* Reverse[X_EUCJP]: JIS X 0208, then JIS X 0212 from index 8836
ReverseJISX(code) ==
  LET a == ReverseLookup(TableJISX0208, code)
      b == ReverseLookup(TableJISX0212, code)
  IN IF a < 8836 THEN a ELSE IF b < 8836 THEN b + 8836 ELSE 65533

\* CompressedTableJISXR::operator[]
TableJISXR(code) ==
  IF code <= 65533 THEN ReverseJISX(code)
  ELSE IF code = 134047 THEN 2561
  ELSE 65533

\* Reverse[X_SJIS]: the CP932 codes of the table for Shift-JIS
ReverseSJIS(code) == IF code = 8213 THEN 28 ELSE 65533

\* Reverse[GBK] and Reverse[X_GB2312]: compatibility mappings
ReverseGBK(code) == IF code = 8364 THEN 23940 ELSE 65533

ReverseGB2312(code) == IF code = 183 THEN 3 ELSE 65533

\* Reverse[k] for a single-byte k
ReverseSingleByte(k, code) ==
  IF code < 65533 /\ \E x \in 0..255 : SingleByteTable(k, x) = code
  THEN CHOOSE x \in 0..255 :
         /\ SingleByteTable(k, x) = code
         /\ \A y \in 0..(x-1) : SingleByteTable(k, y) # code
  ELSE 65533

Encoded(c, out) == [cp |-> c, emit |-> out, at |-> None]

\* the replacement of LastChanceConversion for the code, and its result
LastChance(code) ==
  IF code = 160 \/ (code >= 8192 /\ code <= 8202) \/ code = 8239
  THEN [out |-> <<32>>, ok |-> TRUE]
  ELSE IF code = 173 \/ (code >= 8203 /\ code <= 8205) \/ code = 8288
  THEN [out |-> <<>>, ok |-> TRUE]
  ELSE IF code >= 8208 /\ code <= 8212 THEN [out |-> <<45>>, ok |-> TRUE]
  ELSE IF code = 8213 THEN [out |-> <<45, 45>>, ok |-> TRUE]
  ELSE IF code >= 8216 /\ code <= 8219 THEN [out |-> <<39>>, ok |-> TRUE]
  ELSE IF code >= 8220 /\ code <= 8223 THEN [out |-> <<34>>, ok |-> TRUE]
  ELSE IF code = 8230 THEN [out |-> <<46, 46, 46>>, ok |-> TRUE]
  ELSE IF code = 8260 THEN [out |-> <<47>>, ok |-> TRUE]
  ELSE IF code = 8275 THEN [out |-> <<126>>, ok |-> TRUE]
  ELSE IF code = 65534 THEN [out |-> <<>>, ok |-> FALSE]
  ELSE [out |-> <<63>>, ok |-> FALSE]

LastChanceConversion(t, c) == LastChance(UTF8ToUnicode(t, c).code)

\* "if (!LastChanceConversion(s, lastpos, ep)) { errpos = ... }", after an
\* iteration that read from lastpos to c
NotEncoded(r, lastpos, c) ==
  [cp |-> c, emit |-> r.out, at |-> IF r.ok THEN None ELSE lastpos]

LastChanceAt(t, lastpos, c) ==
  NotEncoded(LastChanceConversion(t, lastpos), lastpos, c)

\* the two bytes of index i in a table of 94 columns from byte lo
Pair94(lo, i) == <<lo + (i \div 94), lo + (i % 94)>>

SJISBytes(i) ==
  LET x0 == i \div 94
      y0 == i % 94
      y == IF x0 % 2 = 0 THEN (IF y0 + 64 >= 127 THEN y0 + 65 ELSE y0 + 64)
           ELSE y0 + 159
      x == 129 + (x0 \div 2)
  IN <<IF x >= 160 THEN x + 64 ELSE x, y>>

SJISFromCode(t, c, u, i) ==
  IF u.code < 128 THEN Encoded(u.cp, <<u.code>>)
  ELSE IF u.code >= 65377 /\ u.code <= 65439
  THEN Encoded(u.cp, <<u.code - 65216>>)
  ELSE IF i < 11280 THEN Encoded(u.cp, SJISBytes(i))
  ELSE LastChanceAt(t, c, u.cp)

SJISIndex(code) ==
  IF TableJISXR(code) >= 8836 THEN ReverseSJIS(code) ELSE TableJISXR(code)

UTF8ToSJISAt(t, c, u) == SJISFromCode(t, c, u, SJISIndex(u.code))

UTF8ToSJIS(t, c) == UTF8ToSJISAt(t, c, UTF8ToUnicode(t, c))

EUCJPFromCode(t, c, u, i) ==
  IF u.code < 128 THEN Encoded(u.cp, <<u.code>>)
  ELSE IF u.code >= 65377 /\ u.code <= 65439
  THEN Encoded(u.cp, <<142, u.code - 65216>>)
  ELSE IF i < 2 * 8836
  THEN Encoded(u.cp, IF i >= 8836 THEN <<143>> \o Pair94(161, i - 8836)
                     ELSE Pair94(161, i))
  ELSE LastChanceAt(t, c, u.cp)

UTF8ToEUCJPAt(t, c, u) == EUCJPFromCode(t, c, u, TableJISXR(u.code))

UTF8ToEUCJP(t, c) == UTF8ToEUCJPAt(t, c, UTF8ToUnicode(t, c))

Big5Index(code) ==
  IF ReverseLookup(TableBig5, code) < 65533 THEN ReverseLookup(TableBig5, code)
  ELSE CASE code = 131276 -> 11205 [] code = 131210 -> 11207
         [] code = 161287 -> 11213 [] OTHER -> 65533

\* a variant of Big5Bytes that does not step over the bytes 0x7F..0xA0
Big5BytesNoGap(i) == <<129 + (i \div 157), 64 + (i % 157)>>

Big5Bytes(i) ==
  LET y == 64 + (i % 157) IN
  <<129 + (i \div 157), IF y >= 127 THEN y + 34 ELSE y>>

Big5FromCode(t, c, u, i) ==
  IF u.code < 128 THEN Encoded(u.cp, <<u.code>>)
  ELSE IF i < 19782 THEN Encoded(u.cp, Big5Bytes(i))
  ELSE LastChanceAt(t, c, u.cp)

UTF8ToBig5At(t, c, u) == Big5FromCode(t, c, u, Big5Index(u.code))

UTF8ToBig5(t, c) == UTF8ToBig5At(t, c, UTF8ToUnicode(t, c))

\* the two bytes of a two-byte index of the GB18030 table
GBKBytes(i) ==
  IF i < 8836 THEN Pair94(161, i)
  ELSE IF i < 8836 + 6080
  THEN LET y == 64 + ((i - 8836) % 190) IN
       <<129 + ((i - 8836) \div 190), IF y >= 127 THEN y + 1 ELSE y>>
  ELSE LET y == 64 + ((i - 14916) % 96) IN
       <<161 + ((i - 14916) \div 96), IF y >= 127 THEN y + 1 ELSE y>>

\* "unsigned short t = table[code]; if (t >= 0xFFFD) switch (code) ..."
GBKCompatible(code) ==
  IF ReverseLookup(TableGB, code) < 65533 THEN ReverseLookup(TableGB, code)
  ELSE CASE code = 131207 -> 23767 [] code = 131209 -> 23768
         [] code = 131276 -> 23769 [] code = 136663 -> 23794
         [] code = 141711 -> 23804 [] code = 147966 -> 23830
         [] OTHER -> 23940

EncodeIndexGBK(code) ==
  IF GBKCompatible(code) > 23940 THEN ReverseGBK(code) ELSE GBKCompatible(code)

GBKFromCode(t, c, u, i) ==
  IF u.code < 128 THEN Encoded(u.cp, <<u.code>>)
  ELSE IF i < 23940 THEN Encoded(u.cp, GBKBytes(i))
  ELSE LastChanceAt(t, c, u.cp)

UTF8ToGBKAt(t, c, u) == GBKFromCode(t, c, u, EncodeIndexGBK(u.code))

UTF8ToGBK(t, c) == UTF8ToGBKAt(t, c, UTF8ToUnicode(t, c))

FourBytes(i) ==
  <<129 + ((i \div 1260) \div 10), 48 + ((i \div 1260) % 10),
    129 + ((i % 1260) \div 10), 48 + ((i % 1260) % 10)>>

GB18030FromCode(t, c, u, i) ==
  IF u.code < 128 THEN Encoded(u.cp, <<u.code>>)
  ELSE IF u.code <= 65533
  THEN (IF i < 23940 THEN Encoded(u.cp, GBKBytes(i))
        ELSE Encoded(u.cp, FourBytes(i - 23940)))
  ELSE IF u.code >= 65536
  THEN Encoded(u.cp, FourBytes(u.code - 65536 + 150 * 1260))
  ELSE LastChanceAt(t, c, u.cp)

UTF8ToGB18030At(t, c, u) ==
  GB18030FromCode(t, c, u, ReverseLookup(TableGB, u.code))

UTF8ToGB18030(t, c) == UTF8ToGB18030At(t, c, UTF8ToUnicode(t, c))

EncodeIndexGB2312(code) ==
  IF ReverseLookup(TableGB, code) >= 8836 THEN ReverseGB2312(code)
  ELSE ReverseLookup(TableGB, code)

GB2312FromCode(t, c, u, i) ==
  IF u.code < 128 THEN Encoded(u.cp, <<u.code>>)
  ELSE IF i < 8836 THEN Encoded(u.cp, Pair94(161, i))
  ELSE LastChanceAt(t, c, u.cp)

UTF8ToGB2312At(t, c, u) == GB2312FromCode(t, c, u, EncodeIndexGB2312(u.code))

UTF8ToGB2312(t, c) == UTF8ToGB2312At(t, c, UTF8ToUnicode(t, c))

\* tableL and tableT of UTF8ToEUCKR, indexed from 0
EncodeTableL ==
  <<0, 1, 3, 6, 7, 8, 16, 17, 18, 20, 21, 22, 23, 24, 25, 26, 27, 28, 29>>

EncodeTableT ==
  <<51, 0, 1, 2, 3, 4, 5, 6, 8, 9, 10, 11, 12, 13, 14, 15, 16, 17, 19,
    20, 21, 22, 23, 25, 26, 27, 28, 29>>

JamoBytesUntabled(z) ==
  <<164, 212,
    164, 161 + ((z \div 28) \div 21),
    164, 191 + ((z \div 28) % 21),
    164, 161 + (z % 28)>>

\* the 8-byte jamo code of the hangul syllable at z = code - 0xAC00
JamoBytes(z) ==
  <<164, 212,
    164, 161 + EncodeTableL[((z \div 28) \div 21) + 1],
    164, 191 + ((z \div 28) % 21),
    164, 161 + EncodeTableT[(z % 28) + 1]>>

\* a variant that writes every hangul syllable as a jamo code
EUCKRJamoFromCode(t, c, u, i) ==
  IF u.code < 128 THEN Encoded(u.cp, <<u.code>>)
  ELSE IF u.code >= 44032 /\ u.code <= 55203
  THEN Encoded(u.cp, JamoBytes(u.code - 44032))
  ELSE IF i < 8836 THEN Encoded(u.cp, Pair94(161, i))
  ELSE LastChanceAt(t, c, u.cp)

EUCKRFromCode(t, c, u, i) ==
  IF u.code < 128 THEN Encoded(u.cp, <<u.code>>)
  ELSE IF i < 8836 THEN Encoded(u.cp, Pair94(161, i))
  ELSE IF u.code >= 44032 /\ u.code <= 55203
  THEN Encoded(u.cp, JamoBytes(u.code - 44032))
  ELSE LastChanceAt(t, c, u.cp)

UTF8ToEUCKRAt(t, c, u) ==
  EUCKRFromCode(t, c, u, ReverseLookup(TableKSX1001, u.code))

UTF8ToEUCKR(t, c) == UTF8ToEUCKRAt(t, c, UTF8ToUnicode(t, c))

\* "if (tptr == 0) { tptr = Reverse[ISO_IR_6]; }"
ReverseKey(k) ==
  IF k \in {CS.ISO_IR_100, CS.ISO_IR_126, CS.ISO_IR_13} THEN k ELSE CS.ISO_IR_6

SingleByteFromCode(t, c, u, i) ==
  IF i < 65533 THEN Encoded(u.cp, <<i>>) ELSE LastChanceAt(t, c, u.cp)

UTF8ToSingleByteAt(k, t, c, u) ==
  SingleByteFromCode(t, c, u, ReverseSingleByte(ReverseKey(k), u.code))

UTF8ToSingleByte(k, t, c) == UTF8ToSingleByteAt(k, t, c, UTF8ToUnicode(t, c))

\* UTF8ToJISX: the flags of the character set and its escape codes
HasJISX0201(charset) == BitAnd(charset, CS.ISO_IR_13) = CS.ISO_IR_13

HasJISX0208(charset) == BitAnd(charset, CS.ISO_2022_IR_87) = CS.ISO_2022_IR_87

HasJISX0212(charset) == BitAnd(charset, CS.ISO_2022_IR_159) = CS.ISO_2022_IR_159

EscBase(charset) == IF HasJISX0201(charset) THEN <<27, 40, 74>> ELSE <<27, 40, 66>>

Esc0208 == <<27, 36, 66>>

Esc0212 == <<27, 36, 40, 68>>

\* the code after the substitutions made for JIS X 0201 (lines 2589-2606)
JISXCode(charset, code) ==
  IF ~HasJISX0201(charset) THEN code
  ELSE IF code = 92 /\ HasJISX0208(charset) THEN 65340
  ELSE IF code = 126 /\ HasJISX0212(charset) THEN 65374
  ELSE IF code = 165 /\ ~HasJISX0208(charset) THEN 92
  ELSE IF code = 8254 /\ ~HasJISX0212(charset) THEN 126
  ELSE code

JISXEncoded(c, out, st) == [cp |-> c, emit |-> out, at |-> None, state |-> st]

\* "conversion of character failed" (lines 2658-2672)
JISXFailed(charset, r, lastpos, c, st) ==
  [cp |-> c,
   emit |-> IF Len(r.out) = 0 THEN <<>> ELSE EscBase(charset) \o r.out,
   at |-> IF r.ok THEN None ELSE lastpos,
   state |-> IF Len(r.out) = 0 THEN st ELSE 0]

\* the table index with the compatibility mappings of JIS X 0208
JISXCompatible(code, i) ==
  IF i >= 8836 /\ ((code >= 65377 /\ code <= 65439) \/ code = 65374 \/
                   code = 22625 \/ code = 38960)
  THEN ReverseSJIS(code)
  ELSE i

\* lines 2620-2656 and the failure after them, for table index i of code
JISXFromIndex(charset, t, lastpos, c, code, i, st) ==
  IF i >= 8836 /\ i < 2 * 8836 /\ HasJISX0212(charset)
  THEN JISXEncoded(c, (IF st # 2 THEN Esc0212 ELSE <<>>) \o Pair94(33, i - 8836), 2)
  ELSE IF HasJISX0208(charset) /\ JISXCompatible(code, i) < 8836
  THEN JISXEncoded(c, (IF st # 1 THEN Esc0208 ELSE <<>>)
                       \o Pair94(33, JISXCompatible(code, i)), 1)
  ELSE IF ~HasJISX0208(charset) /\ i < 8836
  THEN JISXEncoded(c, Pair94(33, i), st)
  ELSE JISXFailed(charset, LastChanceConversion(t, lastpos), lastpos, c, st)

JISXFromCode(charset, t, lastpos, u, code, st) ==
  IF HasJISX0201(charset) /\ u.code >= 65377 /\ u.code <= 65439
  THEN JISXEncoded(u.cp, <<u.code - 65216>>, st)
  ELSE IF code < 128
  THEN JISXEncoded(u.cp, (IF st # 0 THEN EscBase(charset) ELSE <<>>) \o <<code>>, 0)
  ELSE IF HasJISX0208(charset) \/ HasJISX0212(charset)
  THEN JISXFromIndex(charset, t, lastpos, u.cp, code, TableJISXR(code), st)
  ELSE JISXFailed(charset, LastChanceConversion(t, lastpos), lastpos, u.cp, st)

UTF8ToJISXAt(charset, t, c, u, st) ==
  JISXFromCode(charset, t, c, u, JISXCode(charset, u.code), st)

UTF8ToJISX(charset, t, c, st) ==
  UTF8ToJISXAt(charset, t, c, UTF8ToUnicode(t, c), st)

\* the end of the line that starts at c: the first end-of-line character
\* at or after c, then the end of the run of end-of-line characters
RECURSIVE SkipLine(_, _, _)
SkipLine(t, c, inrun) ==
  IF c = Len(t) THEN c
  ELSE IF IsEndLine(t[c+1]) THEN SkipLine(t, c + 1, TRUE)
  ELSE IF inrun THEN c
  ELSE SkipLine(t, c + 1, FALSE)

\* "(checkAscii & 0x80) == 0" for the line from c to dp
PureASCII(t, c, dp) == \A i \in (c+1)..dp : t[i] < 128

\* FromUTF8: the routine it calls for a key
EncoderOf(k) ==
  IF IsISO2022(k) THEN "UTF8ToISO2022"
  ELSE IF k = CS.X_EUCKR THEN "UTF8ToEUCKR"
  ELSE IF k = CS.X_GB2312 THEN "UTF8ToGB2312"
  ELSE IF k = CS.ISO_IR_192 THEN "UTF8ToUTF8"
  ELSE IF k = CS.GB18030 THEN "UTF8ToGB18030"
  ELSE IF k = CS.GBK THEN "UTF8ToGBK"
  ELSE IF k = CS.X_BIG5 THEN "UTF8ToBig5"
  ELSE IF k = CS.X_EUCJP THEN "UTF8ToEUCJP"
  ELSE IF k = CS.X_SJIS THEN "UTF8ToSJIS"
  ELSE "UTF8ToSingleByte"

\* UTF8ToISO2022: the routine it calls for a key
EncoderOfISO2022(k) ==
  IF BitAnd(k, BitOr(CS.ISO_2022_JP_BASE, CS.ISO_2022)) = k THEN "UTF8ToJISX"
  ELSE IF k = CS.ISO_2022_IR_149 \/ k = CS.ISO_2022_IR_58 THEN "lines"
  ELSE "UTF8ToSingleByte"

-----------------------------------------------------------------------------
(* NextBackslash(text, ep): the offset of the first backslash that is not  *)
(* part of a multi-byte character, of the first NUL, or of the end.  One   *)
(* operator per loop, each one iteration: the new cursor and whether the   *)
(* iteration left the loop with a break.                                   *)

Moved(c) == [cp |-> c, brk |-> FALSE]

\* the last two branches of every loop: skip a byte that is not a backslash
SkipOrBreak(t, c) ==
  IF t[c+1] # 92 THEN Moved(c + 1) ELSE [cp |-> c, brk |-> TRUE]

\* a variant of the loop for GB18030 and GBK that takes every byte alone
NextBackslashBytewise(t, c) == SkipOrBreak(t, c)

NextBackslashGB(t, c) ==
  IF t[c+1] >= 129 THEN
    LET c1 == c + 1 IN
    Moved(IF c1 # Len(t) /\ t[c1+1] >= 33 THEN c1 + 1 ELSE c1)
  ELSE SkipOrBreak(t, c)

NextBackslashSJIS(t, c) ==
  LET x == t[c+1] IN
  IF (x >= 129 /\ x <= 159) \/ (x >= 224 /\ x <= 252) THEN
    LET c1 == c + 1 IN
    Moved(IF c1 # Len(t) /\ t[c1+1] >= 64 /\ t[c1+1] <= 252 /\ t[c1+1] # 127
          THEN c1 + 1 ELSE c1)
  ELSE SkipOrBreak(t, c)

NextBackslashBig5(t, c) ==
  LET x == t[c+1] IN
  IF x >= 129 /\ x <= 254 THEN
    LET c1 == c + 1 IN
    Moved(IF c1 # Len(t) /\ ((t[c1+1] >= 64 /\ t[c1+1] <= 126) \/
                             (t[c1+1] >= 161 /\ t[c1+1] <= 254))
          THEN c1 + 1 ELSE c1)
  ELSE SkipOrBreak(t, c)

NextBackslashPlain(t, c) == SkipOrBreak(t, c)

(* The loop for ISO 2022 has the locals                                    *)
(*   b = [cp, G2, G3, state, shiftcount, charset96, brk].                  *)

\* "do not advance past backslashes in the escape sequence": the cursor
\* after at most l bytes from c, none of them past a backslash
RECURSIVE UpToBackslash(_, _, _)
UpToBackslash(t, c, l) ==
  IF l = 0 \/ t[c+1] = 92 THEN c ELSE UpToBackslash(t, c + 1, l - 1)

\* the branch for ESC (lines 3962-4001)
NextBackslashEscape(t, b) ==
  LET c == b.cp + 1
      l == EscapeCodeLength(t, c)
      code == Slice(t, c, c + l)
      e == EscapeCode(code, b.state)
      G2 == IF e.type = "CODE_G2D" THEN CharacterSetFromEscapeCode(code)
            ELSE b.G2
      G3 == IF e.type = "CODE_G3D" THEN CharacterSetFromEscapeCode(code)
            ELSE b.G3
      ss2 == e.type = "CODE_SS2" /\ b.G2 # CS.Unknown
      ss3 == e.type = "CODE_SS3" /\ b.G3 # CS.Unknown
  IN
  [cp |-> UpToBackslash(t, c, l), G2 |-> G2, G3 |-> G3, state |-> e.state,
   shiftcount |->
     IF ss2 THEN (IF BitAnd(e.state, ST.MULTIBYTE_G2) # 0 THEN 2 ELSE 1)
     ELSE IF ss3 THEN (IF BitAnd(e.state, ST.MULTIBYTE_G3) # 0 THEN 2 ELSE 1)
     ELSE 0,
   charset96 |->
     IF ss2 THEN BitAnd(e.state, ST.CHARSET96_G2) # 0
     ELSE IF ss3 THEN BitAnd(e.state, ST.CHARSET96_G3) # 0
     ELSE b.charset96,
   brk |-> FALSE]

\* the inner loop over the end-of-line characters after the first
RECURSIVE EndLines(_, _, _)
EndLines(t, b, prevchar) ==
  IF b.cp # Len(t) /\ IsEndLine(t[b.cp+1]) THEN
    LET c == t[b.cp+1]
        r == IF prevchar = 13 /\ c = 10
             THEN [b EXCEPT !.G2 = CS.Unknown, !.G3 = CS.Unknown,
                            !.state = 0, !.shiftcount = 0]
             ELSE b
    IN EndLines(t, [r EXCEPT !.cp = @ + 1], c)
  ELSE b

\* the branch for an end-of-line character (lines 4002-4017)
NextBackslashEndLine(t, b) ==
  EndLines(t, [b EXCEPT !.cp = @ + 1], t[b.cp+1])

\* a variant of the branch for a pending single shift that forgets the shift
NextBackslashUnshifted(t, b) == [b EXCEPT !.shiftcount = 0]

\* the branch for a pending single shift (lines 4018-4031)
NextBackslashShifted(t, b) ==
  LET cGL == BitAnd(t[b.cp+1], 127) IN
  IF (cGL >= 33 /\ cGL <= 126) \/ (b.charset96 /\ cGL >= 32)
  THEN [b EXCEPT !.cp = @ + 1, !.shiftcount = @ - 1]
  ELSE [b EXCEPT !.shiftcount = 0]

\* one iteration of the loop for ISO 2022 (lines 3959-4047)
NextBackslashISO2022(t, b) ==
  LET c == t[b.cp+1] IN
  IF c = 27 THEN NextBackslashEscape(t, b)
  ELSE IF IsEndLine(c) THEN NextBackslashEndLine(t, b)
  ELSE IF b.shiftcount # 0 THEN NextBackslashShifted(t, b)
  ELSE IF BitAnd(b.state, ST.MULTIBYTE_G0) # 0 THEN [b EXCEPT !.cp = @ + 1]
  ELSE IF c # 92 THEN [b EXCEPT !.cp = @ + 1]
  ELSE [b EXCEPT !.brk = TRUE]

\* the loop that NextBackslash runs for the key k
NextBackslashLoop(k) ==
  IF k = CS.GB18030 \/ k = CS.GBK THEN "NextBackslashGB"
  ELSE IF k = CS.X_SJIS THEN "NextBackslashSJIS"
  ELSE IF k = CS.X_BIG5 THEN "NextBackslashBig5"
  ELSE IF IsISO2022(k) THEN "NextBackslashISO2022"
  ELSE "NextBackslashPlain"

-----------------------------------------------------------------------------
(* NextBackslash as a state machine: cp is its cursor; for ISO 2022 the    *)
(* locals charsetG2 and charsetG3 are charsetG[3] and charsetG[4], state   *)
(* is state, shiftcount and charset96 are fields of aux.                   *)

KeysBS ==
  {CS.GB18030, CS.GBK, CS.X_SJIS, CS.X_BIG5, CS.ISO_IR_100,
   CS.ISO_2022_IR_87, CS.ISO_2022_IR_100}

FragmentsBS(k) ==
  CASE k = CS.GB18030 \/ k = CS.GBK ->
         {<<65>>, <<92>>, <<0>>, <<129, 92>>, <<196, 92>>, <<176, 161>>,
          <<129, 48, 129, 48>>, <<129>>, <<255>>}
    [] k = CS.X_SJIS ->
         {<<65>>, <<92>>, <<0>>, <<129, 92>>, <<130, 160>>, <<177>>,
          <<128>>, <<160>>, <<129>>, <<253>>}
    [] k = CS.X_BIG5 ->
         {<<65>>, <<92>>, <<0>>, <<164, 92>>, <<164, 64>>, <<161, 64>>,
          <<129>>, <<255>>}
    [] k = CS.ISO_IR_100 -> {<<65>>, <<92>>, <<0>>, <<233>>}
    [] OTHER ->
         {<<65>>, <<92>>, <<0>>, <<13>>, <<10>>, <<27, 78>>, <<27, 78, 92>>,
          <<27, 92>>, <<27, 36, 92>>, <<27, 40, 92>>, <<27, 40, 66>>}

PrefixesBS(k) ==
  IF IsISO2022(k) THEN {<<>>, <<27, 36, 66>>, <<27, 46, 70>>, <<27, 36, 42, 72>>}
  ELSE {<<>>}

TextsBS(k) == {a \o b : a \in PrefixesBS(k), b \in TextsOver(FragmentsBS(k))}

InitBS ==
  /\ key \in KeysBS
  /\ text \in TextsBS(key)
  /\ mode = "replace"
  /\ pad = 0
  /\ pc = "idle"
  /\ cp = 0
  /\ s = <<>>
  /\ errpos = None
  /\ charsetG = <<CS.Unknown, CS.Unknown, CS.Unknown, CS.Unknown>>
  /\ state = 0
  /\ ev = NoEvent
  /\ aux = [ret |-> None, shiftcount |-> 0, charset96 |-> FALSE]

CallNextBackslash ==
  /\ pc = "idle"
  /\ pc' = NextBackslashLoop(key)
  /\ UNCHANGED <<key, mode, text, pad, cp, s, errpos, charsetG, state, ev, aux>>

\* the loop of fn is entered: the cursor is not at the end nor at a NUL
InLoop(fn) == pc = fn /\ cp # Len(text) /\ text[cp+1] # 0

\* the effect of one iteration r of the loop fn
AdvanceBS(fn, r) ==
  /\ cp' = r.cp
  /\ pc' = IF r.brk THEN "done" ELSE pc
  /\ ev' = [fn |-> fn, start |-> cp]

IterateBS(fn, r) ==
  /\ AdvanceBS(fn, r)
  /\ aux' = [aux EXCEPT !.ret = IF r.brk THEN r.cp ELSE @]
  /\ UNCHANGED <<key, mode, text, pad, s, errpos, charsetG, state>>

NextBackslashGBLoop ==
  /\ InLoop("NextBackslashGB")
  /\ IterateBS("NextBackslashGB", NextBackslashGB(text, cp))

NextBackslashSJISLoop ==
  /\ InLoop("NextBackslashSJIS")
  /\ IterateBS("NextBackslashSJIS", NextBackslashSJIS(text, cp))

NextBackslashBig5Loop ==
  /\ InLoop("NextBackslashBig5")
  /\ IterateBS("NextBackslashBig5", NextBackslashBig5(text, cp))

NextBackslashPlainLoop ==
  /\ InLoop("NextBackslashPlain")
  /\ IterateBS("NextBackslashPlain", NextBackslashPlain(text, cp))

LocalsBS ==
  [cp |-> cp, G2 |-> charsetG[3], G3 |-> charsetG[4], state |-> state,
   shiftcount |-> aux.shiftcount, charset96 |-> aux.charset96, brk |-> FALSE]

NextBackslashISO2022Loop ==
  /\ InLoop("NextBackslashISO2022")
  /\ LET b == NextBackslashISO2022(text, LocalsBS) IN
     /\ AdvanceBS("NextBackslashISO2022", b)
     /\ charsetG' = [charsetG EXCEPT ![3] = b.G2, ![4] = b.G3]
     /\ state' = b.state
     /\ aux' = [ret |-> IF b.brk THEN b.cp ELSE aux.ret,
                shiftcount |-> b.shiftcount, charset96 |-> b.charset96]
  /\ UNCHANGED <<key, mode, text, pad, s, errpos>>

\* the loop ends at the end of the text or at a NUL: "return (cp - text)"
ReturnNextBackslash ==
  /\ pc \in {"NextBackslashGB", "NextBackslashSJIS", "NextBackslashBig5",
             "NextBackslashPlain", "NextBackslashISO2022"}
  /\ IF cp = Len(text) THEN TRUE ELSE text[cp+1] = 0
  /\ pc' = "done"
  /\ aux' = [aux EXCEPT !.ret = cp]
  /\ UNCHANGED <<key, mode, text, pad, cp, s, errpos, charsetG, state, ev>>

NextBS ==
  \/ CallNextBackslash
  \/ NextBackslashGBLoop
  \/ NextBackslashSJISLoop
  \/ NextBackslashBig5Loop
  \/ NextBackslashPlainLoop
  \/ NextBackslashISO2022Loop
  \/ ReturnNextBackslash

SpecBS == InitBS /\ [][NextBS]_vars

-----------------------------------------------------------------------------
(* NextBackslash (SpecSS) and AnyToUTF8 (SpecSD) for an ISO 2022 key on    *)
(* texts with single shifts: a text is a sequence of designations followed *)
(* by single shifts and bytes that can follow them.                        *)

KeysSS == {CS.ISO_2022_IR_100}

\* no designation; ESC . F (G2, 96 characters); the same followed by ESC + B
\* (G3, 94 characters) or by ESC * B (G2, 94 characters)
PrefixesSS ==
  {<<>>, <<27, 46, 70>>, <<27, 46, 70, 27, 43, 66>>,
   <<27, 46, 70, 27, 42, 66>>}

FragmentsSS ==
  {<<27, 78>>, <<27, 79>>, <<65>>, <<92>>, <<32>>, <<127>>, <<13>>, <<10>>}

TextsSS == {a \o b : a \in PrefixesSS, b \in TextsOver(FragmentsSS)}

InitSS ==
  /\ key \in KeysSS
  /\ text \in TextsSS
  /\ mode = "replace"
  /\ pad = 0
  /\ pc = "idle"
  /\ cp = 0
  /\ s = <<>>
  /\ errpos = None
  /\ charsetG = <<CS.Unknown, CS.Unknown, CS.Unknown, CS.Unknown>>
  /\ state = 0
  /\ ev = NoEvent
  /\ aux = [ret |-> None, first |-> None, prevchar |-> 0,
            shiftcount |-> 0, charset96 |-> FALSE]

NextSS ==
  \/ CallNextBackslash
  \/ NextBackslashISO2022Loop
  \/ ReturnNextBackslash

SpecSS == InitSS /\ [][NextSS]_vars

NextSD ==
  \/ CallAnyToUTF8
  \/ ISO2022SegmentPart
  \/ ISO2022ControlPart
  \/ ISO2022EscapePart
  \/ Return

SpecSD == InitSS /\ [][NextSD]_vars

-----------------------------------------------------------------------------
(* The registry: KeyFromString and GetCharacterSetString.                  *)

RECURSIVE SkipSpaces(_, _)
SkipSpaces(name, c) ==
  IF c # Len(name) /\ name[c+1] = 32 THEN SkipSpaces(name, c + 1) ELSE c

RECURSIVE EndOfValue(_, _)
EndOfValue(name, d) ==
  IF d # Len(name) /\ name[d+1] # 92 /\ name[d+1] # 0
  THEN EndOfValue(name, d + 1) ELSE d

RECURSIVE StripTrailing(_, _, _)
StripTrailing(name, c, l) ==
  IF l > 0 /\ name[c+l] = 32 THEN StripTrailing(name, c, l - 1) ELSE l

\* "l == strlen(term) && strncmp(term, cp, l) == 0" for a value of l > 0
\* bytes, none of them NUL
TermMatches(term, value) == term = value

RowMatches(i, value) ==
  \/ TermMatches(Charsets[i].DefinedTerm, value)
  \/ TermMatches(Charsets[i].DefinedTermExt, value)

\* a variant in which a later value with Flags 0 replaces the key
KeyOfLaterValue(k, i, n, iso2022flag) ==
  IF n = 0 THEN BitOr(Charsets[i].Key, iso2022flag)
  ELSE IF Charsets[i].Flags = 2
  THEN BitOr(BitOr(BitAnd(k, CS.ISO_2022_JP_BASE), Charsets[i].Key),
             CS.ISO_2022)
  ELSE BitOr(Charsets[i].Key, CS.ISO_2022)

\* a variant in which a later value with Flags 2 replaces the key
KeyOfReplacingValue(k, i, n, iso2022flag) ==
  IF n = 0 THEN BitOr(Charsets[i].Key, iso2022flag)
  ELSE IF Charsets[i].Flags \in {1, 2} THEN BitOr(Charsets[i].Key, CS.ISO_2022)
  ELSE k

\* the key after value number n has matched row i (lines 3019-3037)
KeyOfValue(k, i, n, iso2022flag) ==
  IF n = 0 THEN BitOr(Charsets[i].Key, iso2022flag)
  ELSE IF Charsets[i].Flags = 1 THEN BitOr(Charsets[i].Key, CS.ISO_2022)
  ELSE IF Charsets[i].Flags = 2
  THEN BitOr(BitOr(BitAnd(k, CS.ISO_2022_JP_BASE), Charsets[i].Key),
             CS.ISO_2022)
  ELSE k

\* the search of the table for a value of l > 0 bytes (lines 3004-3039)
KeyFromTerm(q, value) ==
  IF \E i \in 1..Len(Charsets) : RowMatches(i, value) THEN
    LET i == CHOOSE i \in 1..Len(Charsets) :
                /\ RowMatches(i, value)
                /\ \A j \in 1..(i-1) : ~RowMatches(j, value)
        iso2022flag == IF TermMatches(Charsets[i].DefinedTerm, value)
                       THEN 0 ELSE CS.ISO_2022
    IN [q EXCEPT !.found = TRUE,
                 !.key = KeyOfValue(q.key, i, q.n, iso2022flag)]
  ELSE [q EXCEPT !.found = FALSE]

\* one pass of the loop over the values; q = [cp, n, key, found]
KeyFromValue(name, q) ==
  LET c == SkipSpaces(name, q.cp)
      dp == EndOfValue(name, c)
      l == StripTrailing(name, c, dp - c)
      r == IF l = 0 THEN [q EXCEPT !.found = TRUE, !.key = CS.ISO_IR_6]
           ELSE KeyFromTerm(q, Slice(name, c, c + l))
  IN [r EXCEPT !.n = @ + 1,
               !.cp = IF dp # Len(name) /\ name[dp+1] = 92 THEN dp + 1
                      ELSE dp]

\* CaseFoldUnicode (lines 928-1468): the codes code, code2 and code3 at line
\* 1457, 0 for a code that is not set
CaseFoldCodes(code) ==
  LET One(c) == <<c, 0, 0>>
      Odd(c) == One(BitOr(c, 1))           \* code |= 1
      Even(c) == One(c + (c % 2))          \* code += (code & 1)
      In(lo, hi) == code >= lo /\ code <= hi
      table0180 ==
        <<384, 595, 387, 387, 389, 389, 596, 392, 392, 598, 599, 396,
          396, 397, 477, 601, 603, 402, 402, 608, 611, 405, 617, 616,
          409, 409, 410, 411, 623, 626, 414, 629, 417, 417, 419, 419,
          421, 421, 640, 424, 424, 643, 426, 427, 429, 429, 648, 432,
          432, 650, 651, 436, 436, 438, 438, 658, 441, 441, 442, 443,
          445, 445, 446, 447, 448, 449, 450, 451, 454, 454, 454, 457,
          457, 457, 460>>
      table01F0 ==
        <<496, 499, 499, 499, 501, 501, 405, 447, 505, 505, 507, 507,
          509, 509, 511, 511, 513, 513, 515, 515, 517, 517, 519, 519,
          521, 521, 523, 523, 525, 525, 527, 527, 529, 529, 531, 531,
          533, 533, 535, 535, 537, 537, 539, 539, 541, 541, 543, 543,
          414, 545, 547, 547, 549, 549, 551, 551, 553, 553, 555, 555,
          557, 557, 559, 559, 561, 561, 563, 563, 564, 565, 566, 567,
          568, 569, 11365, 572, 572, 410, 11366, 575, 576, 578, 578, 384,
          649, 652, 583, 583, 585, 585, 587, 587, 589, 589, 591, 591>>
      table0370 ==
        <<881, 881, 883, 883, 884, 885, 887, 887, 888, 889, 890, 891,
          892, 893, 894, 1011, 896, 897, 898, 899, 900, 901, 940, 903,
          941, 942, 943, 907, 972, 909, 973, 974>>
      table03CF ==
        <<983, 946, 952, 978, 979, 980, 966, 960>>
      table03F0 ==
        <<954, 961, 1010, 1011, 952, 949, 1014, 1016, 1016, 1010, 1019,
          1019, 1020, 891, 892, 893>>
      table1E96 ==
        <<104, 116, 119, 121, 97, 7777>>
      table1E96b ==
        <<817, 776, 778, 778, 702, 0>>
      table1F50 ==
        <<0, 0, 768, 0, 769, 0, 834>>
      table1FB2 ==
        <<8048, 945, 940, 8117, 945, 945, 8112, 8113, 8048, 8049, 945,
          8125, 953, 8127, 8128, 8129, 8052, 951, 942, 8133, 951, 951,
          8050, 8051, 8052, 8053, 951, 8141, 8142, 8143, 8144, 8145, 953,
          953, 8148, 8149, 953, 953, 8144, 8145, 8054, 8055, 8156, 8157,
          8158, 8159, 8160, 8161, 965, 965, 961, 8165, 965, 965, 8160,
          8161, 8058, 8059, 8165, 8173, 8174, 8175, 8176, 8177, 8060,
          969, 974, 8181, 969, 969, 8056, 8057, 8060, 8061, 969>>
      table2C60 ==
        <<11361, 11361, 619, 7549, 637, 11365, 11366, 11368, 11368,
          11370, 11370, 11372, 11372, 593, 625, 592, 594, 11377, 11379,
          11379, 11380, 11382, 11382, 11383, 11384, 11385, 11386, 11387,
          11388, 11389, 575, 576>>
      tableA7AA ==
        <<614, 604, 609, 620, 42926, 42927, 670, 647, 669, 43859, 42933,
          42933, 42935>>
      tableFB13 ==
        <<1396, 1396, 1396, 1406, 1396>>
      tableFB13b ==
        <<1398, 1381, 1387, 1398, 1389>>
  IN
  IF code <= 127 THEN
    (IF In(65, 90) THEN One(code + 32) ELSE One(code))
  ELSE IF code <= 255 THEN
    (IF In(192, 222) /\ code # 215 THEN One(code + 32)
     ELSE IF code = 223 THEN <<115, 115, 0>>
     ELSE IF code = 181 THEN One(956)
     ELSE One(code))
  ELSE IF code <= 383 THEN
    (IF In(256, 303) THEN Odd(code)
     ELSE IF code = 304 THEN <<105, 775, 0>>
     ELSE IF In(306, 311) THEN Odd(code)
     ELSE IF In(313, 328) THEN Even(code)
     ELSE IF code = 329 THEN <<700, 110, 0>>
     ELSE IF In(330, 375) THEN Odd(code)
     ELSE IF code = 376 THEN One(255)
     ELSE IF In(377, 382) THEN Even(code)
     ELSE IF code = 383 THEN One(115)
     ELSE One(code))
  ELSE IF code <= 879 THEN
    (IF In(384, 458) THEN One(table0180[code - 384 + 1])
     ELSE IF In(459, 476) THEN Even(code)
     ELSE IF In(478, 495) THEN Odd(code)
     ELSE IF code = 496 THEN <<106, 780, 0>>
     ELSE IF In(496, 591) THEN One(table01F0[code - 496 + 1])
     ELSE IF code = 837 THEN One(953)
     ELSE One(code))
  ELSE IF code <= 1023 THEN
    (IF In(880, 911) THEN One(table0370[code - 880 + 1])
     ELSE IF In(913, 929) \/ In(931, 939) THEN One(code + 32)
     ELSE IF code = 912 THEN <<953, 776, 769>>
     ELSE IF code = 944 THEN <<965, 776, 769>>
     ELSE IF code = 962 THEN One(code + 1)
     ELSE IF In(975, 982) THEN One(table03CF[code - 975 + 1])
     ELSE IF In(984, 1007) THEN Odd(code)
     ELSE IF In(1008, 1023) THEN One(table03F0[code - 1008 + 1])
     ELSE One(code))
  ELSE IF code <= 1327 THEN
    (IF In(1024, 1039) THEN One(code + 80)
     ELSE IF In(1040, 1071) THEN One(code + 32)
     ELSE IF In(1120, 1153) \/ In(1162, 1215) THEN Odd(code)
     ELSE IF code = 1216 THEN One(1231)
     ELSE IF In(1217, 1230) THEN Even(code)
     ELSE IF In(1232, 1327) THEN Odd(code)
     ELSE One(code))
  ELSE IF code <= 4096 THEN
    (IF In(1329, 1366) THEN One(code + 48)
     ELSE IF code = 1415 THEN <<1381, 1410, 0>>
     ELSE One(code))
  ELSE IF code <= 5119 THEN
    (IF In(4256, 4293) \/ code = 4295 \/ code = 4301
     THEN One(code + 7264)
     ELSE IF In(5112, 5117) THEN One(code - 8)
     ELSE One(code))
  ELSE IF code <= 7935 THEN
    (IF In(7680, 7829) THEN Odd(code)
     ELSE IF In(7830, 7835)
     THEN <<table1E96[code - 7830 + 1], table1E96b[code - 7830 + 1], 0>>
     ELSE IF code = 7838 THEN <<115, 115, 0>>
     ELSE IF In(7840, 7934) THEN Odd(code)
     ELSE One(code))
  ELSE IF code <= 8191 THEN
    (IF In(7944, 7951) \/ In(7960, 7965) \/ In(7976, 7983) \/
        In(7992, 7999) \/ In(8008, 8013)
     THEN One(code - 8)
     ELSE IF In(8016, 8022) /\ code % 2 = 0
     THEN <<965, 787, table1F50[code - 8016 + 1]>>
     ELSE IF (In(8025, 8031) /\ code % 2 # 0) \/ In(8040, 8047)
     THEN One(code - 8)
     ELSE IF In(8064, 8111) THEN
       <<IF code <= 8071 THEN code - 128
         ELSE IF code <= 8079 THEN code - 136
         ELSE IF code <= 8087 THEN code - 112
         ELSE IF code <= 8095 THEN code - 120
         ELSE IF code <= 8103 THEN code - 64
         ELSE code - 72,
         953, 0>>
     ELSE IF In(8114, 8188) THEN
       LET c1 == table1FB2[code - 8114 + 1] IN
       IF code <= 8116 \/ code = 8124 \/ In(8130, 8132) \/
          code = 8140 \/ In(8178, 8180) \/ code = 8188
       THEN <<c1, 953, 0>>
       ELSE IF code \in {8118, 8134, 8150, 8166, 8182}
       THEN <<c1, 834, 0>>
       ELSE IF code \in {8118, 8119, 8135, 8183}
       THEN <<c1, 834, 953>>
       ELSE IF In(8146, 8147) THEN <<c1, 776, code - (8146 - 768)>>
       ELSE IF code = 8151 \/ code = 8167 THEN <<c1, 776, 834>>
       ELSE IF In(8162, 8163) THEN <<c1, 776, code - (8162 - 768)>>
       ELSE IF code = 8164 THEN <<c1, 787, 0>>
       ELSE One(c1)
     ELSE One(code))
  ELSE IF code <= 9471 THEN
    (IF code = 8486 THEN One(969)
     ELSE IF code = 8490 THEN One(107)
     ELSE IF code = 8491 THEN One(229)
     ELSE IF code = 8498 THEN One(8526)
     ELSE IF In(8544, 8559) THEN One(code + 16)
     ELSE IF code = 8579 THEN One(code + 1)
     ELSE IF In(9398, 9423) THEN One(code + 26)
     ELSE One(code))
  ELSE IF code <= 11519 THEN
    (IF In(11264, 11310) THEN One(code + 48)
     ELSE IF In(11360, 11391) THEN One(table2C60[code - 11360 + 1])
     ELSE IF In(11392, 11507) THEN
       (IF code <= 11491 THEN Odd(code)
        ELSE IF code \in {11499, 11501, 11506} THEN One(code + 1)
        ELSE One(code))
     ELSE One(code))
  ELSE IF code <= 40959 THEN One(code)
  ELSE IF code <= 44031 THEN
    (IF In(42560, 42605) \/ In(42624, 42651) THEN Odd(code)
     ELSE IF In(42786, 42863) /\ code # 42800 THEN Odd(code)
     ELSE IF In(42873, 42876) THEN Even(code)
     ELSE IF code = 42877 THEN One(7545)
     ELSE IF In(42878, 42887) THEN Odd(code)
     ELSE IF code = 42891 THEN One(code + 1)
     ELSE IF code = 42893 THEN One(613)
     ELSE IF In(42896, 42921) /\ code # 42900 THEN Odd(code)
     ELSE IF In(42922, 42934) THEN One(tableA7AA[code - 42922 + 1])
     ELSE IF In(43888, 43967) THEN One(code - 38864)
     ELSE One(code))
  ELSE IF code <= 64255 THEN One(code)
  ELSE IF code <= 64511 THEN
    (IF In(64256, 64262) THEN
       (IF code <= 64260 THEN
          (IF code = 64257 THEN <<102, 105, 0>>
           ELSE IF code = 64258 THEN <<102, 108, 0>>
           ELSE <<102, 102, IF code = 64259 THEN 105
                            ELSE IF code = 64260 THEN 108 ELSE 0>>)
        ELSE <<115, 116, 0>>)
     ELSE IF In(64275, 64279)
     THEN <<tableFB13[code - 64275 + 1], tableFB13b[code - 64275 + 1], 0>>
     ELSE One(code))
  ELSE IF code <= 65535 THEN
    (IF In(65313, 65338) THEN One(code + 32) ELSE One(code))
  ELSE IF In(66560, 66599) THEN One(code + 40)
  ELSE IF In(68736, 68786) THEN One(code + 64)
  ELSE IF In(71840, 71871) THEN One(code + 32)
  ELSE One(code)

\* a variant that folds the capital sharp s to the small one, as lower-casing
\* does, and the small one to "ss"
CaseFoldByLowerCase(code) ==
  IF code >= 65 /\ code <= 90 THEN <<code + 32>>
  ELSE IF code = 7838 THEN <<223>>
  ELSE IF code = 223 THEN <<115, 115>>
  ELSE <<code>>

\* CaseFoldUnicode(code, s): the codes appended to s (lines 1457-1467)
CaseFoldUnicode(code) ==
  LET r == CaseFoldCodes(code) IN
  IF r[2] # 0
  THEN (IF r[3] # 0 THEN r ELSE <<r[1], r[2]>>)
  ELSE <<r[1]>>

RECURSIVE CaseFoldLoop(_, _)
CaseFoldLoop(u, c) ==
  IF c = Len(u) THEN <<>>
  ELSE LET r == UTF8ToUnicode(u, c)
           code == IF r.code = 65535 THEN 65533 ELSE r.code
       IN (IF code # 65534 THEN UnicodeSeqToUTF8(CaseFoldUnicode(code))
           ELSE <<>>) \o CaseFoldLoop(u, r.cp)

\* ToUTF8 of a converter whose key k is not one of ISO 2022 (for those keys
\* the conversion is ISO2022ToUTF8 above)
ToUTF8(k, t) == RunDecoder(Call(AnyToUTF8(k), k), t, "replace").s

CaseFoldedUTF8(k, t) ==
  CaseFoldLoop(IF k # CS.ISO_IR_192 THEN ToUTF8(k, t) ELSE t, 0)

\* OctalCharCode(s, c), lines 1669-1677: the four characters appended
OctalCharCode(c) ==
  <<92, 48 + (c \div 64), 48 + ((c \div 8) % 8), 48 + (c % 8)>>

\* a variant of the pass below that only knows the characters of one byte
ToSafeUTF8StepOneByte(u, c) ==
  LET a == u[c+1] IN
  [cp |-> c + 1, esc |-> IF a < 32 \/ a = 127 \/ a = 92 THEN a ELSE None]

\* one pass of the loop of ToSafeUTF8 (lines 3778-3815) at the offset c of
\* the string u: the offset after the pass, and the character code that the
\* pass writes as an escape (None when it writes nothing)
ToSafeUTF8Step(u, c) ==
  LET ep == Len(u)
      a == u[c+1]
  IN
  IF a < 32 \/ a = 127 \/ a = 92 THEN [cp |-> c + 1, esc |-> a]
  ELSE IF a \div 64 = 3 /\ c + 1 # ep THEN
    LET b == u[c+2] IN
    IF a = 194 /\ b < 160 THEN [cp |-> c + 2, esc |-> b]
    ELSE IF a \div 32 = 7 /\ c + 2 # ep THEN
      LET c3 == u[c+3] IN
      IF a = 237 /\ b \div 16 = 11 THEN
        LET d == (b % 16) * 64 + (c3 % 64) IN
        [cp |-> c + 3, esc |-> IF d <= 255 THEN d ELSE None]
      ELSE IF a \div 16 = 15 /\ c + 3 # ep THEN [cp |-> c + 4, esc |-> None]
      ELSE [cp |-> c + 3, esc |-> None]
    ELSE [cp |-> c + 2, esc |-> None]
  ELSE [cp |-> c + 1, esc |-> None]

\* the rows and names that the search of the names meets, in its order
NamePlaces ==
  UNION {{<<i, j>> : j \in 1..Len(Names[i])} : i \in 1..Len(Names)}

Before(a, b) == a[1] < b[1] \/ (a[1] = b[1] /\ a[2] < b[2])

\* the places of the names equal to lowername
NameHits(lowername) == {pl \in NamePlaces : Names[pl[1]][pl[2]] = lowername}

\* the key for the first of the places hits, k when there is none; "always
\* activate JISX0208 if JISX0212 is active"
KeyFromName(k, hits) ==
  IF hits = {} THEN k
  ELSE LET pl == CHOOSE pl \in hits : \A o \in hits : o = pl \/ Before(pl, o)
       IN IF Charsets[pl[1]].Key = CS.ISO_2022_IR_159
          THEN BitOr(CS.ISO_2022_IR_159, CS.ISO_2022_IR_87)
          ELSE Charsets[pl[1]].Key

\* "look for common character set names" (lines 3046-3071); the converter
\* cs that folds the name has the key of the default constructor
KeyFromNames(name, q) ==
  IF ~q.found /\ name # <<>> /\ name[1] # 0
  THEN KeyFromName(q.key, NameHits(CaseFoldedUTF8(CS.ISO_IR_6, name)))
  ELSE q.key

RECURSIVE KeyFromValues(_, _)
KeyFromValues(name, q) ==
  IF q.cp # Len(name) /\ name[q.cp+1] # 0
  THEN KeyFromValues(name, KeyFromValue(name, q))
  ELSE KeyFromNames(name, q) % 256

KeyFromString(name) ==
  KeyFromValues(name, [cp |-> 0, n |-> 0, key |-> CS.Unknown, found |-> FALSE])

\* GetCharacterSetString: one pass of the loop over the rows, at row i for
\* the converter with key k0; g = [key, value]
CharacterSetStringRow(k0, i, g) ==
  LET row == Charsets[i]
      jp == BitOr(CS.ISO_2022_JP_BASE, CS.ISO_2022)
      combines == g.key = BitAnd(g.key, jp) /\ g.key # CS.ISO_2022
      m == IF combines THEN
             BitAnd(row.Key, g.key) = row.Key /\
             BitOr(row.Key, CS.ISO_2022) # CS.ISO_2022
           ELSE IF row.Flags = 0 /\ g.value = <<>> THEN
             (IF IsISO2022(k0)
              THEN row.Key = BitAnd(g.key, CS.ISO_2022_BASE)
              ELSE row.Key = g.key)
           ELSE IF row.Flags = 1 /\ g.value = <<>> THEN
             row.Key = BitOr(g.key, CS.ISO_2022)
           ELSE FALSE
      k1 == IF ~m THEN g.key
            ELSE IF combines THEN
              LET x == BitXor(g.key, BitAnd(row.Key, 255 - CS.ISO_2022))
              IN IF x = CS.ISO_2022 THEN 0 ELSE x
            ELSE 0
      v == IF ~m THEN <<>>
           ELSE IF IsISO2022(k0) THEN
             (IF row.Flags = 1 \/ row.Flags = 2 THEN <<92>> ELSE <<>>) \o
             row.DefinedTermExt
           ELSE row.DefinedTerm
  IN [key |-> k1, value |-> g.value \o v]

RECURSIVE CharacterSetStringRows(_, _, _)
CharacterSetStringRows(k0, i, g) ==
  IF i <= Len(Charsets) /\ g.key # 0
  THEN CharacterSetStringRows(k0, i + 1, CharacterSetStringRow(k0, i, g))
  ELSE g.value

GetCharacterSetString(k) ==
  CharacterSetStringRows(k, 1, [key |-> k, value |-> <<>>])

-----------------------------------------------------------------------------
(* The registry as a state machine: a converter is constructed from the    *)
(* string text, then asked for its string.  key is the local key of        *)
(* KeyFromString and then the key of the converter; cp is the cursor;      *)
(* n and found are fields of aux; s is the string returned.                *)

RowOf(k) == CHOOSE i \in 1..Len(Charsets) :
              Charsets[i].Key = k /\ \A j \in 1..(i-1) : Charsets[j].Key # k

Term(k) == Charsets[RowOf(k)].DefinedTerm

TermExt(k) == Charsets[RowOf(k)].DefinedTermExt

\* the values of the strings: defined terms, with and without spaces, the
\* empty value, a name and a value that is no term
ValuesKey ==
  {Term(CS.ISO_IR_6), Term(CS.ISO_IR_100), TermExt(CS.ISO_IR_100),
   TermExt(CS.ISO_IR_144),
   Term(CS.ISO_IR_13), TermExt(CS.ISO_IR_13), TermExt(CS.ISO_2022_IR_87),
   TermExt(CS.ISO_2022_IR_159), TermExt(CS.ISO_2022_IR_149),
   Term(CS.ISO_IR_192), <<32>> \o TermExt(CS.ISO_2022_IR_87) \o <<32>>,
   <<>>, <<32>>, <<76, 97, 116, 105, 110, 49>>, <<120>>}

RECURSIVE Join(_)
Join(p) ==
  IF Len(p) = 0 THEN <<>>
  ELSE IF Len(p) = 1 THEN p[1]
  ELSE p[1] \o <<92>> \o Join(Tail(p))

Upper(name) ==
  [i \in 1..Len(name) |->
     IF name[i] >= 97 /\ name[i] <= 122 THEN name[i] - 32 ELSE name[i]]

\* the names of ISO_2022_IR_159 as the table has them and in capitals, and
\* a name of ISO_2022_IR_87
AliasesKey ==
  LET names == Names[RowOf(CS.ISO_2022_IR_159)] IN
  {names[j] : j \in 1..Len(names)} \cup
  {Upper(names[j]) : j \in 1..Len(names)} \cup
  {Names[RowOf(CS.ISO_2022_IR_87)][1]}

StringsKey ==
  UNION {{Join(p) : p \in [1..n -> ValuesKey]} : n \in 0..MaxParts}
  \cup AliasesKey

InitKey ==
  /\ key = CS.Unknown
  /\ text \in StringsKey
  /\ mode = "replace"
  /\ pad = 0
  /\ pc = "idle"
  /\ cp = 0
  /\ s = <<>>
  /\ errpos = None
  /\ charsetG = <<CS.Unknown, CS.Unknown, CS.Unknown, CS.Unknown>>
  /\ state = 0
  /\ ev = NoEvent
  /\ aux = [ret |-> None, n |-> 0, found |-> FALSE]

CallKeyFromString ==
  /\ pc = "idle"
  /\ pc' = "KeyFromString"
  /\ UNCHANGED <<key, mode, text, pad, cp, s, errpos, charsetG, state, ev, aux>>

LocalsKey == [cp |-> cp, n |-> aux.n, key |-> key, found |-> aux.found]

\* one pass of the loop over the backslash-separated values
KeyFromStringValue ==
  /\ pc = "KeyFromString"
  /\ cp # Len(text)
  /\ text[cp+1] # 0
  /\ LET q == KeyFromValue(text, LocalsKey) IN
     /\ cp' = q.cp
     /\ key' = q.key
     /\ aux' = [aux EXCEPT !.n = q.n, !.found = q.found]
     /\ ev' = [fn |-> "KeyFromString", start |-> cp]
  /\ UNCHANGED <<mode, text, pad, pc, s, errpos, charsetG, state>>

\* the loop has ended: the search of the names, and the return
KeyFromStringNames ==
  /\ pc = "KeyFromString"
  /\ IF cp = Len(text) THEN TRUE ELSE text[cp+1] = 0
  /\ key' = KeyFromNames(text, LocalsKey) % 256
  /\ aux' = [aux EXCEPT !.ret = key']
  /\ pc' = "constructed"
  /\ UNCHANGED <<mode, text, pad, cp, s, errpos, charsetG, state, ev>>

CallGetCharacterSetString ==
  /\ pc = "constructed"
  /\ s' = GetCharacterSetString(key)
  /\ pc' = "done"
  /\ UNCHANGED <<key, mode, text, pad, cp, errpos, charsetG, state, ev, aux>>

NextKey ==
  \/ CallKeyFromString
  \/ KeyFromStringValue
  \/ KeyFromStringNames
  \/ CallGetCharacterSetString

SpecKey == InitKey /\ [][NextKey]_vars

-----------------------------------------------------------------------------
(* The round trip as a state machine: ToUTF8 on the text, then FromUTF8 on *)
(* what it gave.  ToUTF8 runs the decoding operations above in replace     *)
(* mode; FromUTF8 then runs with the decoded string in aux.utf8, the       *)
(* cursor cp and the first error errpos as offsets into it, the encoded    *)
(* output in s and the state of UTF8ToJISX in state.  An encoder called    *)
(* for one line by UTF8ToISO2022 runs from aux.base to aux.ep.             *)

FragmentsRT2022 ==
  {<<65>>, <<10>>, <<233>>, <<36, 34>>, <<176, 161>>, <<27, 36, 66>>,
   <<27, 40, 66>>, <<27, 36, 41, 67>>, <<27, 36, 41, 65>>}

KeysRT ==
  DecodeKeys \cup {CS.ISO_2022_IR_87, CS.ISO_2022_IR_100, CS.ISO_2022_IR_149,
                   CS.ISO_2022_IR_58}

TextsRT(k) ==
  IF IsISO2022(k) THEN TextsOver(FragmentsRT2022) ELSE TextsOver(Fragments(k))

InitRT ==
  /\ key \in KeysRT
  /\ text \in TextsRT(key)
  /\ mode = "replace"
  /\ pad = 0
  /\ pc = "idle"
  /\ cp = 0
  /\ s = <<>>
  /\ errpos = None
  /\ charsetG = <<CS.Unknown, CS.Unknown, CS.Unknown, CS.Unknown>>
  /\ state = 0
  /\ ev = NoEvent
  /\ aux = [ret |-> None, first |-> None, prevchar |-> 0]

\* ToUTF8(text, l, lp): AnyToUTF8 with UTF8_REPLACE
CallToUTF8 == EnterAnyToUTF8("replace")

Encoders ==
  {"UTF8ToEUCKR", "UTF8ToGB2312", "UTF8ToUTF8Replace", "UTF8ToGB18030",
   "UTF8ToGBK", "UTF8ToBig5", "UTF8ToEUCJP", "UTF8ToSJIS", "UTF8ToSingleByte",
   "UTF8ToJISX"}

\* FromUTF8(text, l, lp) on the string that ToUTF8 returned
CallFromUTF8 ==
  /\ pc = "done"
  /\ pc' = IF EncoderOf(key) = "UTF8ToUTF8" THEN "UTF8ToUTF8Replace"
           ELSE EncoderOf(key)
  /\ aux' = [utf8 |-> s, n |-> aux.ret, ret |-> None, base |-> 0,
             ep |-> Len(s), l |-> Len(s), caller |-> "FromUTF8"]
  /\ s' = <<>>
  /\ cp' = 0
  /\ errpos' = None
  /\ state' = 0
  /\ UNCHANGED <<key, mode, text, pad, charsetG, ev>>

\* UTF8ToISO2022 chooses how to encode for the key
CallUTF8ToISO2022 ==
  /\ pc = "UTF8ToISO2022"
  /\ pc' = EncoderOfISO2022(key)
  /\ UNCHANGED <<key, mode, text, pad, cp, s, errpos, charsetG, state, ev, aux>>

\* the text of the running encoder call
TextRT == Slice(aux.utf8, 0, aux.ep)

\* the effect of one iteration r of the loop of encoder fn
Encode(fn, r) ==
  /\ pc = fn
  /\ cp # aux.ep
  /\ cp' = r.cp
  /\ s' = s \o r.emit
  /\ errpos' = FirstError(errpos, r.at)
  /\ UNCHANGED <<key, mode, text, pad, pc, charsetG, ev, aux>>

UTF8ToEUCKRLoop ==
  /\ Encode("UTF8ToEUCKR", UTF8ToEUCKR(TextRT, cp))
  /\ UNCHANGED state

UTF8ToGB2312Loop ==
  /\ Encode("UTF8ToGB2312", UTF8ToGB2312(TextRT, cp))
  /\ UNCHANGED state

UTF8ToUTF8ReplaceLoop ==
  /\ Encode("UTF8ToUTF8Replace", UTF8ToUTF8(TextRT, cp, "replace"))
  /\ UNCHANGED state

UTF8ToGB18030Loop ==
  /\ Encode("UTF8ToGB18030", UTF8ToGB18030(TextRT, cp))
  /\ UNCHANGED state

UTF8ToGBKLoop ==
  /\ Encode("UTF8ToGBK", UTF8ToGBK(TextRT, cp))
  /\ UNCHANGED state

UTF8ToBig5Loop ==
  /\ Encode("UTF8ToBig5", UTF8ToBig5(TextRT, cp))
  /\ UNCHANGED state

UTF8ToEUCJPLoop ==
  /\ Encode("UTF8ToEUCJP", UTF8ToEUCJP(TextRT, cp))
  /\ UNCHANGED state

UTF8ToSJISLoop ==
  /\ Encode("UTF8ToSJIS", UTF8ToSJIS(TextRT, cp))
  /\ UNCHANGED state

\* "vtkDICOMCharacterSet cs(this->Key ^ ISO_2022)" when UTF8ToISO2022 calls
UTF8ToSingleByteLoop ==
  /\ Encode("UTF8ToSingleByte",
            UTF8ToSingleByte(IF IsISO2022(key) THEN BitXor(key, CS.ISO_2022)
                             ELSE key, TextRT, cp))
  /\ UNCHANGED state

UTF8ToJISXStep(r) ==
  /\ Encode("UTF8ToJISX", r)
  /\ state' = r.state

UTF8ToJISXLoop ==
  /\ UTF8ToJISXStep(UTF8ToJISX(key, TextRT, cp, state))

\* "return (errpos ? errpos-text : cp-text)" of the running encoder call
EncoderReturn == (IF errpos # None THEN errpos ELSE cp) - aux.base

\* a variant that appends nothing when UTF8ToJISX returns
EncoderTailNone == <<>>

\* "if (state != 0) { s->append(escBase); }" when UTF8ToJISX returns
EncoderTail ==
  IF pc = "UTF8ToJISX" /\ state # 0 THEN EscBase(key) ELSE <<>>

\* the loop of an encoder ends and the encoder returns to FromUTF8
ReturnFromUTF8 ==
  /\ pc \in Encoders
  /\ cp = aux.ep
  /\ aux.caller = "FromUTF8"
  /\ pc' = "encoded"
  /\ s' = s \o EncoderTail
  /\ aux' = [aux EXCEPT !.ret = EncoderReturn]
  /\ UNCHANGED <<key, mode, text, pad, cp, errpos, charsetG, state, ev>>

\* UTF8ToISO2022, one line of the text: a line of ASCII is copied, another
\* line is given to the encoder after the escape code
UTF8ToISO2022Line ==
  /\ pc = "lines"
  /\ cp # Len(aux.utf8)
  /\ LET dp == SkipLine(aux.utf8, cp, FALSE) IN
     IF PureASCII(aux.utf8, cp, dp)
     THEN /\ s' = s \o Slice(aux.utf8, cp, dp)
          /\ cp' = dp
          /\ UNCHANGED <<pc, aux>>
     ELSE /\ s' = s \o (IF key = CS.ISO_2022_IR_58 THEN <<27, 36, 41, 65>>
                        ELSE <<27, 36, 41, 67>>)
          /\ pc' = IF key = CS.ISO_2022_IR_58 THEN "UTF8ToGB2312"
                   ELSE "UTF8ToEUCKR"
          /\ aux' = [aux EXCEPT !.base = cp, !.ep = dp, !.caller = "lines"]
          /\ UNCHANGED cp
  /\ UNCHANGED <<key, mode, text, pad, errpos, charsetG, state, ev>>

\* the encoder of a line returns n to UTF8ToISO2022:
\* "if (n < m) { n += cp - text; SetErrorPosition(l, n); }  cp = dp;"
ReturnToLines ==
  /\ pc \in Encoders
  /\ cp = aux.ep
  /\ aux.caller = "lines"
  /\ pc' = "lines"
  /\ aux' = [aux EXCEPT
               !.l = IF EncoderReturn < aux.ep - aux.base
                     THEN SetErrorPosition(@, EncoderReturn + aux.base) ELSE @,
               !.caller = "FromUTF8"]
  /\ errpos' = None
  /\ UNCHANGED <<key, mode, text, pad, cp, s, charsetG, state, ev>>

\* "return l" of UTF8ToISO2022 after the last line
ReturnUTF8ToISO2022 ==
  /\ pc = "lines"
  /\ cp = Len(aux.utf8)
  /\ pc' = "encoded"
  /\ aux' = [aux EXCEPT !.ret = aux.l]
  /\ UNCHANGED <<key, mode, text, pad, cp, s, errpos, charsetG, state, ev>>

NextRT ==
  \/ CallToUTF8
  \/ ASCIIToUTF8Loop
  \/ UTF8ToUTF8Loop
  \/ SingleByteToUTF8Loop
  \/ ISO8859ToUTF8Loop
  \/ SJISToUTF8Loop
  \/ EUCJPToUTF8Loop
  \/ Big5ToUTF8Loop
  \/ GBKToUTF8Loop
  \/ GB18030ToUTF8Loop
  \/ GB2312ToUTF8Loop
  \/ EUCKRToUTF8Loop
  \/ ISO2022SegmentPart
  \/ ISO2022ControlPart
  \/ ISO2022EscapePart
  \/ Return
  \/ CallFromUTF8
  \/ CallUTF8ToISO2022
  \/ UTF8ToEUCKRLoop
  \/ UTF8ToGB2312Loop
  \/ UTF8ToUTF8ReplaceLoop
  \/ UTF8ToGB18030Loop
  \/ UTF8ToGBKLoop
  \/ UTF8ToBig5Loop
  \/ UTF8ToEUCJPLoop
  \/ UTF8ToSJISLoop
  \/ UTF8ToSingleByteLoop
  \/ UTF8ToJISXLoop
  \/ UTF8ToISO2022Line
  \/ ReturnToLines
  \/ ReturnFromUTF8
  \/ ReturnUTF8ToISO2022

SpecRT == InitRT /\ [][NextRT]_vars

-----------------------------------------------------------------------------
(* UTF8ToJISX(charset, text, l, s) on UTF-8 text, for every union of the   *)
(* Japanese ISO 2022 character sets: aux.utf8 is its input, s its output,  *)
(* state its local state (0 base set, 1 JIS X 0208, 2 JIS X 0212).         *)

\* ISO_2022_IR_13, ISO_2022_IR_87, ISO_2022_IR_159 and their unions
KeysJ ==
  {BitOr(CS.ISO_2022, b) : b \in 1..CS.ISO_2022_JP_BASE}

\* 'A', backslash, U+3042 (JIS X 0208), U+4E02 (JIS X 0212), U+FF71
\* (half-width katakana), U+00A0 and U+00AD (replaced by a space and by
\* nothing), U+00E9 (not convertible), and a lead byte alone
FragmentsJ ==
  {<<65>>, <<92>>, <<227, 129, 130>>, <<228, 184, 130>>, <<239, 189, 177>>,
   <<194, 160>>, <<194, 173>>, <<195, 169>>, <<227>>}

InitJ ==
  /\ key \in KeysJ
  /\ text \in TextsOver(FragmentsJ)
  /\ mode = "replace"
  /\ pad = 0
  /\ pc = "idle"
  /\ cp = 0
  /\ s = <<>>
  /\ errpos = None
  /\ charsetG = <<CS.Unknown, CS.Unknown, CS.Unknown, CS.Unknown>>
  /\ state = 0
  /\ ev = NoEvent
  /\ aux = [utf8 |-> <<>>, n |-> None, ret |-> None, base |-> 0, ep |-> 0,
            l |-> 0, caller |-> "FromUTF8"]

\* the entry of UTF8ToJISX, lines 2557-2575
CallUTF8ToJISX ==
  /\ pc = "idle"
  /\ pc' = "UTF8ToJISX"
  /\ aux' = [aux EXCEPT !.utf8 = text, !.ep = Len(text), !.l = Len(text)]
  /\ state' = 0
  /\ errpos' = None
  /\ cp' = 0
  /\ UNCHANGED <<key, mode, text, pad, s, charsetG, ev>>

NextJ == CallUTF8ToJISX \/ UTF8ToJISXLoop \/ ReturnFromUTF8

SpecJ == InitJ /\ [][NextJ]_vars

-----------------------------------------------------------------------------
(* The hangul syllables: UTF8ToEUCKR on the UTF-8 form of a syllable, then *)
(* EUCKRToUTF8 on the 8-byte jamo code that the tables of UTF8ToEUCKR give *)
(* for the syllable.  aux.code is the syllable, aux.utf8 the input of the  *)
(* encoder, text the input of the decoder; aux.enc keeps the output of the *)
(* encoder.                                                                *)

HangulSyllables == 44032..55203

InitKR ==
  /\ key = CS.X_EUCKR
  /\ \E code \in HangulSyllables :
       /\ text = JamoBytes(code - 44032)
       /\ aux = [code |-> code, utf8 |-> UnicodeToUTF8(code), ep |-> 3,
                 l |-> 3, base |-> 0, caller |-> "FromUTF8", enc |-> <<>>,
                 ret |-> None, first |-> None, prevchar |-> 0]
  /\ mode = "replace"
  /\ pad = 0
  /\ pc = "idle"
  /\ cp = 0
  /\ s = <<>>
  /\ errpos = None
  /\ charsetG = <<CS.Unknown, CS.Unknown, CS.Unknown, CS.Unknown>>
  /\ state = 0
  /\ ev = NoEvent

\* UTF8ToEUCKR(text, l, s) on the UTF-8 form of the syllable
CallUTF8ToEUCKR ==
  /\ pc = "idle"
  /\ pc' = "UTF8ToEUCKR"
  /\ UNCHANGED <<key, mode, text, pad, cp, s, errpos, charsetG, state, ev, aux>>

\* EUCKRToUTF8(text, l, s, mode) on the jamo code of the syllable
CallEUCKRToUTF8 ==
  /\ pc = "encoded"
  /\ pc' = "EUCKRToUTF8"
  /\ mode' \in Modes
  /\ aux' = [aux EXCEPT !.enc = s, !.ret = None]
  /\ s' = <<>>
  /\ cp' = 0
  /\ errpos' = None
  /\ UNCHANGED <<key, text, pad, charsetG, state, ev>>

NextKR ==
  \/ CallUTF8ToEUCKR
  \/ UTF8ToEUCKRLoop
  \/ ReturnFromUTF8
  \/ CallEUCKRToUTF8
  \/ EUCKRToUTF8Loop
  \/ Return

SpecKR == InitKR /\ [][NextKR]_vars

-----------------------------------------------------------------------------
(* The four-byte codes of GB18030: UTF8ToGB18030 on the UTF-8 form of a    *)
(* code point beyond the BMP, then GB18030ToUTF8 on the bytes written; and *)
(* GB18030ToUTF8 on four-byte codes at the bounds of the ranges.  aux.code *)
(* is the code point (None for a four-byte code that is given), aux.utf8   *)
(* the input of the encoder, text the input of the decoder.                *)

\* code points beyond the BMP: the bounds, and a sample
CodesGB ==
  {65536, 65537, 66795, 66796, 131071, 131072, 1114110, 1114111}
    \cup {65536 + ((k * 4099) % 1048576) : k \in 0..191}

\* four-byte codes: lead bytes of the BMP (81, 84), of the unused indices
\* 32..149 (84 32, 85, 8F), of the code points from 0x10000 (90) to 0x10FFFF
\* (E3 32 9A 35) and beyond (E3 32 9A 36, E4, FE)
CodesFourByte ==
  {<<a, b, x, y>> : a \in {129, 132, 133, 143, 144, 227, 228, 254},
                    b \in {48, 49, 50, 57},
                    x \in {129, 154, 164, 254},
                    y \in {48, 53, 54, 55, 57}}

InitGB ==
  /\ key = CS.GB18030
  /\ \/ \E code \in CodesGB :
          /\ text = <<>>
          /\ aux = [code |-> code, utf8 |-> UnicodeToUTF8(code), ep |-> 4,
                    l |-> 4, base |-> 0, caller |-> "FromUTF8", enc |-> <<>>,
                    ret |-> None, first |-> None, prevchar |-> 0]
     \/ /\ text \in CodesFourByte
        /\ aux = [code |-> None, utf8 |-> <<>>, ep |-> 0,
                  l |-> 0, base |-> 0, caller |-> "FromUTF8", enc |-> <<>>,
                  ret |-> None, first |-> None, prevchar |-> 0]
  /\ mode = "replace"
  /\ pad = 0
  /\ pc = "idle"
  /\ cp = 0
  /\ s = <<>>
  /\ errpos = None
  /\ charsetG = <<CS.Unknown, CS.Unknown, CS.Unknown, CS.Unknown>>
  /\ state = 0
  /\ ev = NoEvent

\* UTF8ToGB18030(text, l, s) on the UTF-8 form of the code point
CallUTF8ToGB18030 ==
  /\ pc = "idle"
  /\ aux.code # None
  /\ pc' = "UTF8ToGB18030"
  /\ UNCHANGED <<key, mode, text, pad, cp, s, errpos, charsetG, state, ev, aux>>

\* GB18030ToUTF8(text, l, s, mode) on the bytes that the encoder has
\* written, or on the four-byte code that is given
CallGB18030ToUTF8 ==
  /\ pc = "encoded" \/ (pc = "idle" /\ aux.code = None)
  /\ pc' = "GB18030ToUTF8"
  /\ mode' \in Modes
  /\ text' = IF pc = "encoded" THEN s ELSE text
  /\ aux' = [aux EXCEPT !.enc = text', !.ret = None]
  /\ s' = <<>>
  /\ cp' = 0
  /\ errpos' = None
  /\ UNCHANGED <<key, pad, charsetG, state, ev>>

NextGB ==
  \/ CallUTF8ToGB18030
  \/ UTF8ToGB18030Loop
  \/ ReturnFromUTF8
  \/ CallGB18030ToUTF8
  \/ GB18030ToUTF8Loop
  \/ Return

SpecGB == InitGB /\ [][NextGB]_vars

-----------------------------------------------------------------------------
(* The two-byte codes of Shift-JIS, Big5, GBK and GB18030: the bytes that  *)
(* the encoder of the key writes for a table index, then one pass of the   *)
(* decoder of the key over these bytes.  aux.index is the table index t of *)
(* the encoder, text the two bytes, ev.index the table index that the      *)
(* decoder computes and ev.cp its cursor after the pass.                   *)

-----------------------------------------------------------------------------
(* EscapeCode on the escape sequences of a text, one after the other: the  *)
(* state is the one that InitISO2022 gives for the key, and each call      *)
(* updates it.  ev holds the code of the last call, the state before the   *)
(* call and the type returned.                                             *)

KeysEsc == {CS.ISO_2022_IR_6, CS.ISO_2022_IR_100, CS.ISO_2022_IR_149}

\* the intermediate bytes '(' ')' '*' '+' '-' '.' '/' that name a slot
SlotBytes == {40, 41, 42, 43, 45, 46, 47}

\* escape codes (without the ESC) with the final byte 'B': ESC $ B, the
\* single-byte and the multi-byte designations of every slot, the single
\* shift ESC N and ESC % G
EscapesEsc ==
  {<<36, 66>>} \cup {<<i, 66>> : i \in SlotBytes}
  \cup {<<36, i, 66>> : i \in SlotBytes} \cup {<<78>>, <<37, 71>>}

InitEsc ==
  /\ key \in KeysEsc
  /\ text = <<>>
  /\ mode = "replace"
  /\ pad = 0
  /\ pc = "idle"
  /\ cp = 0
  /\ s = <<>>
  /\ errpos = None
  /\ charsetG = InitISO2022(key).G
  /\ state = InitISO2022(key).state
  /\ ev = NoEvent
  /\ aux = [calls |-> 0]

CallEscapeCode ==
  /\ \E code \in EscapesEsc :
       LET e == EscapeCode(code, state) IN
       /\ state' = e.state
       /\ ev' = [fn |-> "EscapeCode", code |-> code, before |-> state,
                 type |-> e.type]
  /\ pc' = "escape"
  /\ UNCHANGED <<key, mode, text, pad, cp, s, errpos, charsetG, aux>>

NextEsc == CallEscapeCode

SpecEsc == InitEsc /\ [][NextEsc]_vars

KeysIx == {CS.X_SJIS, CS.X_BIG5, CS.GBK, CS.GB18030}

\* the indices for which the encoder of key k writes two bytes: "t < 11280"
\* (line 1768), "t < 19782" (line 2043), "t < 23940" (lines 2158 and 2289)
IndexCount(k) ==
  IF k = CS.X_SJIS THEN 11280 ELSE IF k = CS.X_BIG5 THEN 19782 ELSE 23940

InitIx ==
  /\ key \in KeysIx
  /\ text = <<>>
  /\ aux \in [index : 0..(IndexCount(key) - 1)]
  /\ mode = "replace"
  /\ pad = 0
  /\ pc = "idle"
  /\ cp = 0
  /\ s = <<>>
  /\ errpos = None
  /\ charsetG = <<CS.Unknown, CS.Unknown, CS.Unknown, CS.Unknown>>
  /\ state = 0
  /\ ev = NoEvent

\* the encoder of the key writes the two bytes x, y of the index t
EncodeIndex ==
  /\ pc = "idle"
  /\ pc' = "encoded"
  /\ s' = IF key = CS.X_SJIS THEN SJISBytes(aux.index)
          ELSE IF key = CS.X_BIG5 THEN Big5Bytes(aux.index)
          ELSE GBKBytes(aux.index)
  /\ text' = s'
  /\ UNCHANGED <<key, mode, pad, cp, errpos, charsetG, state, ev, aux>>

\* one pass of the decoder of the key over the two bytes
DecodePair ==
  /\ pc = "encoded"
  /\ pc' = "decoded"
  /\ cp' = DecoderStep(Call(AnyToUTF8(key), key), text, 0, mode).cp
  /\ ev' = [fn |-> AnyToUTF8(key),
            index |-> IF key = CS.X_SJIS THEN SJISPairIndex(text[1], text[2])
                      ELSE IF key = CS.X_BIG5
                      THEN Big5PairIndex(text[1], text[2])
                      ELSE GBKIndex(text[1], text[2])]
  /\ UNCHANGED <<key, mode, text, pad, s, errpos, charsetG, state, aux>>

NextIx == EncodeIndex \/ DecodePair

SpecIx == InitIx /\ [][NextIx]_vars

-----------------------------------------------------------------------------
(* Case folding: CaseFoldedUTF8 of a converter whose key is ISO_IR_192 on  *)
(* a text, then CaseFoldedUTF8 of the same converter on the string that    *)
(* the first call returned.  aux.code is the code point that the text      *)
(* encodes (None for the other texts), aux.utf8 the string that the loop   *)
(* reads, aux.calls the number of calls made and aux.first the string     *)
(* that the first call returned.                                           *)

\* the code points of every block in which CaseFoldUnicode has a branch or a
\* code that it stores, the bounds of the blocks of its outer conditions, and
\* code points of the blocks that it passes over
FoldCodes ==
  (0..11519) \cup (42560..44031) \cup (64256..64287) \cup (65313..65370)
    \cup (66560..66639) \cup (68736..68850) \cup (71840..71903)
    \cup {11520, 19968, 40959, 40960, 44032, 55203, 55296, 56320, 57343,
          57344, 64255, 64511, 64512, 65279, 65533, 65534, 65535, 65536,
          66559, 128512, 1114111}

\* texts that are no single code point: several letters, and bytes that are
\* no UTF-8
FoldTexts ==
  {<<>>,
   <<83, 116, 114, 97, 195, 159, 101>>,
   <<196, 176, 206, 144, 239, 172, 131>>,
   <<225, 186, 158, 225, 190, 128, 225, 191, 183>>,
   <<65, 255, 90>>,
   <<195>>,
   <<128, 75>>,
   <<226, 132>>,
   <<240, 144, 144>>}

InitCF ==
  /\ key = CS.ISO_IR_192
  /\ \/ \E code \in FoldCodes :
          /\ text = UnicodeToUTF8(code)
          /\ aux = [code |-> code, utf8 |-> <<>>, first |-> <<>>, calls |-> 0]
     \/ /\ text \in FoldTexts
        /\ aux = [code |-> None, utf8 |-> <<>>, first |-> <<>>, calls |-> 0]
  /\ mode = "replace"
  /\ pad = 0
  /\ pc = "idle"
  /\ cp = 0
  /\ s = <<>>
  /\ errpos = None
  /\ charsetG = <<CS.Unknown, CS.Unknown, CS.Unknown, CS.Unknown>>
  /\ state = 0
  /\ ev = NoEvent

\* CaseFoldedUTF8(text, l), lines 3833-3846: on the text, and then on the
\* string that the call on the text returned
CallCaseFoldedUTF8 ==
  /\ pc = "idle" \/ (pc = "folded" /\ aux.calls = 1)
  /\ LET t == IF pc = "idle" THEN text ELSE s
     IN aux' = [aux EXCEPT
                  !.utf8 = IF key # CS.ISO_IR_192 THEN ToUTF8(key, t) ELSE t,
                  !.first = IF pc = "idle" THEN <<>> ELSE s,
                  !.calls = @ + 1]
  /\ pc' = "CaseFoldedUTF8"
  /\ cp' = 0
  /\ s' = <<>>
  /\ UNCHANGED <<key, mode, text, pad, errpos, charsetG, state, ev>>

\* one pass of the loop of CaseFoldedUTF8, lines 3847-3861
CaseFoldedUTF8Loop ==
  /\ pc = "CaseFoldedUTF8"
  /\ cp # Len(aux.utf8)
  /\ LET r == UTF8ToUnicode(aux.utf8, cp)
         code == IF r.code = 65535 THEN 65533 ELSE r.code
     IN /\ s' = IF code # 65534
                THEN s \o UnicodeSeqToUTF8(CaseFoldUnicode(code))
                ELSE s
        /\ cp' = r.cp
  /\ UNCHANGED <<key, mode, text, pad, pc, errpos, charsetG, state, ev, aux>>

\* return s, line 3863
ReturnCaseFoldedUTF8 ==
  /\ pc = "CaseFoldedUTF8"
  /\ cp = Len(aux.utf8)
  /\ pc' = "folded"
  /\ UNCHANGED <<key, mode, text, pad, cp, s, errpos, charsetG, state, ev, aux>>

NextCF ==
  \/ CallCaseFoldedUTF8
  \/ CaseFoldedUTF8Loop
  \/ ReturnCaseFoldedUTF8

SpecCF == InitCF /\ [][NextCF]_vars

-----------------------------------------------------------------------------
(* ToSafeUTF8: AnyToUTF8 in the mode UTF8_ESCAPE, then the scan of the     *)
(* string s that it made.  aux.sp and aux.lp are the pointers cp and lp of *)
(* the scan as offsets into s, aux.t is the string t and aux.safe the      *)
(* string that ToSafeUTF8 returns.                                         *)

SafeKeys == {CS.ISO_IR_192, CS.ISO_IR_100, CS.GBK}

\* characters of 1 to 4 bytes, controls, the backslash and bytes that the
\* decoder cannot convert
FragmentsSafe(k) ==
  CASE k = CS.ISO_IR_192 ->
         {<<65>>, <<92>>, <<7>>, <<127>>, <<194, 133>>, <<195, 169>>,
          <<227, 129, 130>>, <<240, 159, 152, 128>>, <<255>>,
          <<237, 176, 129>>, <<237, 180, 128>>, <<226, 130>>}
    [] k = CS.ISO_IR_100 ->
         {<<65>>, <<92>>, <<10>>, <<127>>, <<133>>, <<233>>}
    [] k = CS.GBK ->
         {<<65>>, <<92>>, <<27>>, <<129, 92>>, <<176, 161>>, <<129>>, <<255>>}

InitSafe ==
  /\ key \in SafeKeys
  /\ text \in TextsOver(FragmentsSafe(key))
  /\ mode = "replace"
  /\ pad = 0
  /\ pc = "idle"
  /\ cp = 0
  /\ s = <<>>
  /\ errpos = None
  /\ charsetG = <<CS.Unknown, CS.Unknown, CS.Unknown, CS.Unknown>>
  /\ state = 0
  /\ ev = NoEvent
  /\ aux = [ret |-> None, first |-> None, prevchar |-> 0,
            sp |-> 0, lp |-> 0, t |-> <<>>, safe |-> <<>>]

\* ToSafeUTF8(text, l), lines 3767-3771: AnyToUTF8(text, l, &s, UTF8_ESCAPE)
CallToSafeUTF8 == EnterAnyToUTF8("escape")

\* one pass of the scan of s, lines 3778-3815
ToSafeUTF8Loop ==
  /\ pc = "done"
  /\ aux.sp # Len(s)
  /\ LET r == ToSafeUTF8Step(s, aux.sp) IN
     aux' = IF r.esc # None
            THEN [aux EXCEPT
                    !.t = @ \o Slice(s, aux.lp, aux.sp) \o OctalCharCode(r.esc),
                    !.lp = r.cp,
                    !.sp = r.cp]
            ELSE [aux EXCEPT !.sp = r.cp]
  /\ UNCHANGED <<key, mode, text, pad, pc, cp, s, errpos, charsetG, state, ev>>

\* the end of ToSafeUTF8, lines 3818-3830
ReturnToSafeUTF8 ==
  /\ pc = "done"
  /\ aux.sp = Len(s)
  /\ pc' = "safe"
  /\ aux' = [aux EXCEPT
               !.t = IF aux.lp = 0 THEN @ ELSE @ \o Slice(s, aux.lp, Len(s)),
               !.safe = IF aux.lp = 0 THEN s
                        ELSE aux.t \o Slice(s, aux.lp, Len(s))]
  /\ UNCHANGED <<key, mode, text, pad, cp, s, errpos, charsetG, state, ev>>

NextSafe ==
  \/ CallToSafeUTF8
  \/ UTF8ToUTF8Loop
  \/ ISO8859ToUTF8Loop
  \/ GBKToUTF8Loop
  \/ Return
  \/ ToSafeUTF8Loop
  \/ ReturnToSafeUTF8

SpecSafe == InitSafe /\ [][NextSafe]_vars

-----------------------------------------------------------------------------
(* InitISO2022(key, charsetG) for every value of the key: charsetG and     *)
(* state are the array that the call fills and the value it returns.       *)

\* the values of an unsigned char
KeyValues == 0..255

InitG ==
  /\ key \in KeyValues
  /\ text = <<>>
  /\ mode = "replace"
  /\ pad = 0
  /\ pc = "idle"
  /\ cp = 0
  /\ s = <<>>
  /\ errpos = None
  /\ charsetG = <<CS.Unknown, CS.Unknown, CS.Unknown, CS.Unknown>>
  /\ state = 0
  /\ ev = NoEvent
  /\ aux = [ret |-> None, first |-> None, prevchar |-> 0]

\* state = InitISO2022(key, charsetG), lines 3347-3398
CallInitISO2022 ==
  /\ pc = "idle"
  /\ pc' = "InitISO2022"
  /\ charsetG' = InitISO2022(key).G
  /\ state' = InitISO2022(key).state
  /\ UNCHANGED <<key, mode, text, pad, cp, s, errpos, ev, aux>>

NextG == CallInitISO2022

SpecG == InitG /\ [][NextG]_vars

-----------------------------------------------------------------------------
(* UTF8ToUnicode(&cp, ep) on byte strings, and on the bytes that           *)
(* UnicodeToUTF8(code, s) has written for a code point: text is the input  *)
(* between cp and ep, aux.code the code point that was encoded (None for a *)
(* byte string), ev.code the value returned.                               *)

\* bytes at the bounds of the ranges that UTF8ToUnicode tells apart
BytesU ==
  {65, 128, 143, 144, 159, 160, 176, 190, 191, 192, 194, 224, 237, 239, 240,
   244, 245, 248}

\* the longest sequence of UTF-8
MaxBytesU == 4

\* bytes that follow an encoded high surrogate
BytesAfterHigh == {65, 128, 160, 176, 237}

TextsU ==
  UNION {[1..n -> BytesU] : n \in 0..MaxBytesU}
    \cup {<<237, 160, 128>> \o x :
            x \in UNION {[1..n -> BytesAfterHigh] : n \in 0..3}}

\* code points at the bounds of the encoded lengths, surrogates,
\* noncharacters, and a sample of the code space
CodesU ==
  {0, 65, 127, 128, 2047, 2048, 55295, 55296, 56319, 56320, 57343, 57344,
   65533, 65534, 65535, 65536, 1114111}
    \cup {(k * 7919) % 1114112 : k \in 0..255}

InitU ==
  /\ key = 0
  /\ mode = "replace"
  /\ pad = 0
  /\ pc = "idle"
  /\ cp = 0
  /\ s = <<>>
  /\ errpos = None
  /\ charsetG = <<0, 0, 0, 0>>
  /\ state = 0
  /\ ev = NoEvent
  /\ \/ aux = [code |-> None] /\ text \in TextsU
     \/ aux \in [code : CodesU] /\ text = <<>>

\* UnicodeToUTF8(code, &s), lines 709-740: the bytes written become the
\* input of the decoder
CallUnicodeToUTF8 ==
  /\ pc = "idle"
  /\ aux.code # None
  /\ pc' = "encoded"
  /\ s' = s \o UnicodeToUTF8(aux.code)
  /\ text' = s'
  /\ UNCHANGED <<key, mode, pad, cp, errpos, charsetG, state, ev, aux>>

\* code = UTF8ToUnicode(&cp, ep), lines 747-896
CallUTF8ToUnicode ==
  /\ pc = "encoded" \/ (pc = "idle" /\ aux.code = None)
  /\ pc' = "decoded"
  /\ cp' = UTF8ToUnicode(text, cp).cp
  /\ ev' = [fn |-> "UTF8ToUnicode", start |-> cp,
            code |-> UTF8ToUnicode(text, cp).code]
  /\ UNCHANGED <<key, mode, text, pad, s, errpos, charsetG, state, aux>>

NextU == CallUnicodeToUTF8 \/ CallUTF8ToUnicode

SpecU == InitU /\ [][NextU]_vars

-----------------------------------------------------------------------------
(* CompressedTable::operator[](x), lines 49-96, on small tables of the     *)
(* layout that the constructor (lines 45-46) reads: table[0] = M, then the *)
(* M hot indices (HTable), then N, then LTable: N range starts, N linear   *)
(* values, N dense offsets, then the dense values.  text is the table      *)
(* array, aux.x the key, aux.k the counter of the loop over the hot        *)
(* ranges, aux.uptr the pointer uptr as an index of LTable, aux.y the      *)
(* value returned.                                                         *)

RCHAR == 65533

\* the members of a CompressedTable over the array t
TableM(t) == t[1]

TableN(t) == t[TableM(t) + 2]

\* HTable[k]
HTableAt(t, k) == t[k + 2]

\* the place of LTable[i] in the array t (from 0), and whether it is a
\* place of the array
LTablePlace(t, i) == TableM(t) + 2 + i

InTable(t, i) == LTablePlace(t, i) >= 0 /\ LTablePlace(t, i) < Len(t)

\* LTable[i], for a place of the array
LTableAt(t, i) == t[LTablePlace(t, i) + 1]

\* std::upper_bound(LTable, LTable+N, x): the index of the first range
\* start that is greater than x, by bisection of the len elements from first
RECURSIVE UpperBound(_, _, _, _)
UpperBound(t, x, first, len) ==
  IF len = 0 THEN first
  ELSE LET half == len \div 2
           mid == first + half
       IN IF x < LTableAt(t, mid) THEN UpperBound(t, x, first, half)
          ELSE UpperBound(t, x, mid + 1, len - half - 1)

\* the ranges of the tables: starts, kinds, values
StartsT == {0, 2, 4, 6}

KindsT == {"linear", "dense", "gap"}

MaxRanges == 3

MaxHot == 2

\* the linear value of the range that starts at a, and the dense value of
\* the key x
LinearBase(a) == 100 + 10 * a

DenseValue(x) == 1000 + 3 * x

\* the end of range i of the starts st: the next start, and one key more
\* than its start for the last range
RangeEnd(st, i) == IF i < Len(st) THEN st[i+1] ELSE st[i] + 1

RECURSIVE DenseOffset(_, _, _)
DenseOffset(st, kd, i) ==
  IF i = 1 THEN 0
  ELSE DenseOffset(st, kd, i - 1) +
       (IF kd[i-1] = "dense" THEN RangeEnd(st, i - 1) - st[i-1] ELSE 0)

RECURSIVE DenseData(_, _, _)
DenseData(st, kd, i) ==
  IF i > Len(st) THEN <<>>
  ELSE (IF kd[i] = "dense"
        THEN [j \in 1..(RangeEnd(st, i) - st[i]) |-> DenseValue(st[i] + j - 1)]
        ELSE <<>>) \o DenseData(st, kd, i + 1)

\* the array of the table with hot indices h, range starts st and kinds kd
MakeTable(h, st, kd) ==
  <<Len(h)>> \o h \o <<Len(st)>> \o st
    \o [i \in 1..Len(st) |-> IF kd[i] = "linear" THEN LinearBase(st[i]) ELSE RCHAR]
    \o [i \in 1..Len(st) |-> IF kd[i] = "dense" THEN DenseOffset(st, kd, i) ELSE RCHAR]
    \o DenseData(st, kd, 1)

\* the range starts ascend, every hot index is the index of a range, and
\* the dense values of the last range do not go on to the key 0xFFFF
TablesT ==
  UNION {{MakeTable(h, st, kd) :
            h \in UNION {[1..m -> 0..(n-1)] : m \in 0..MaxHot},
            st \in {q \in [1..n -> StartsT] : \A i \in 1..(n-1) : q[i] < q[i+1]},
            kd \in {q \in [1..n -> KindsT] : q[n] # "dense"}} :
         n \in 1..MaxRanges}

\* keys below, at and between the range starts, and the greatest key
KeysT == 0..8 \cup {65535}

\* what a read outside the array can give
OutsideValues == {0, RCHAR}

InitT ==
  /\ key = 0
  /\ text \in TablesT
  /\ mode = "replace"
  /\ pad = 0
  /\ pc = "idle"
  /\ cp = 0
  /\ s = <<>>
  /\ errpos = None
  /\ charsetG = <<0, 0, 0, 0>>
  /\ state = 0
  /\ ev = NoEvent
  /\ aux \in [x : KeysT, k : {0}, uptr : {0}, y : {None}, hot : {FALSE},
              outside : {FALSE}]

\* operator[](x) is called
CallOperatorIndex ==
  /\ pc = "idle"
  /\ pc' = "probe"
  /\ UNCHANGED <<key, mode, text, pad, cp, s, errpos, charsetG, state, ev, aux>>

\* one pass of the loop over the hot ranges, lines 57-69
HotRangeProbe ==
  /\ pc = "probe"
  /\ aux.k < TableM(text)
  /\ LET u == HTableAt(text, aux.k) IN
     IF aux.x >= LTableAt(text, u) /\
        (u + 1 = TableN(text) \/ aux.x < LTableAt(text, u + 1))
     THEN /\ pc' = "found"
          /\ aux' = [aux EXCEPT !.uptr = u + 1, !.hot = TRUE]
     ELSE /\ pc' = pc
          /\ aux' = [aux EXCEPT !.k = @ + 1]
  /\ UNCHANGED <<key, mode, text, pad, cp, s, errpos, charsetG, state, ev>>

\* "uptr = std::upper_bound(LTable, LTable+N, x)", line 72
UpperBoundSearch ==
  /\ pc = "probe"
  /\ aux.k = TableM(text)
  /\ pc' = "found"
  /\ aux' = [aux EXCEPT !.uptr = UpperBound(text, aux.x, 0, TableN(text))]
  /\ UNCHANGED <<key, mode, text, pad, cp, s, errpos, charsetG, state, ev>>

\* the value that lines 74-96 return for uptr = u + 1, with v the value of a
\* read outside the array
FoundValue(t, x, u, v) ==
  LET N == TableN(t)
      start == LTableAt(t, u)
      linear == LTableAt(t, u + N)
      dense == LTableAt(t, u + 2 * N)
      i == 3 * N + ((dense + x - start) % 65536)
  IN IF linear # RCHAR THEN (linear + x - start) % 65536
     ELSE IF dense # RCHAR
     THEN (IF InTable(t, i) THEN LTableAt(t, i) ELSE v)
     ELSE dense

\* lines 74-96 read outside the array
FoundOutside(t, x, u) ==
  LET N == TableN(t)
      start == LTableAt(t, u)
      dense == LTableAt(t, u + 2 * N)
  IN /\ LTableAt(t, u + N) = RCHAR
     /\ dense # RCHAR
     /\ ~InTable(t, 3 * N + ((dense + x - start) % 65536))

\* "found:", lines 74-96, and the return
Found ==
  /\ pc = "found"
  /\ pc' = "returned"
  /\ \E v \in OutsideValues :
       aux' = [aux EXCEPT
                 !.uptr = @ - 1,
                 !.y = FoundValue(text, aux.x, aux.uptr - 1, v),
                 !.outside = FoundOutside(text, aux.x, aux.uptr - 1)]
  /\ UNCHANGED <<key, mode, text, pad, cp, s, errpos, charsetG, state, ev>>

NextT == CallOperatorIndex \/ HotRangeProbe \/ UpperBoundSearch \/ Found

SpecT == InitT /\ [][NextT]_vars

-----------------------------------------------------------------------------
(* Properties of the decoders.                                             *)

\* Well-formed UTF-8 (Unicode 15, table 3-7): the bounds of the byte that
\* follows the lead byte b, and the number of bytes of the sequence.  With
\* low set, an encoded U+DC00..U+DFFF also counts as a sequence.
SecondByte(b, low) ==
  IF b >= 194 /\ b <= 223 THEN [n |-> 2, lo |-> 128, hi |-> 191]
  ELSE IF b = 224 THEN [n |-> 3, lo |-> 160, hi |-> 191]
  ELSE IF b = 237 THEN [n |-> 3, lo |-> 128, hi |-> 159]
  ELSE IF b >= 225 /\ b <= 239 THEN [n |-> 3, lo |-> 128, hi |-> 191]
  ELSE IF b = 240 THEN [n |-> 4, lo |-> 144, hi |-> 191]
  ELSE IF b >= 241 /\ b <= 243 THEN [n |-> 4, lo |-> 128, hi |-> 191]
  ELSE IF b = 244 THEN [n |-> 4, lo |-> 128, hi |-> 143]
  ELSE [n |-> 0, lo |-> 0, hi |-> 0]

SequenceAt(u, i, low) ==
  LET r == SecondByte(u[i], low) IN
  /\ r.n > 0
  /\ i + r.n - 1 <= Len(u)
  /\ \/ u[i+1] >= r.lo /\ u[i+1] <= r.hi
     \/ low /\ u[i] = 237 /\ u[i+1] >= 176 /\ u[i+1] <= 191
  /\ \A q \in (i + 2)..(i + r.n - 1) : u[q] >= 128 /\ u[q] <= 191

RECURSIVE WellFormedFrom(_, _, _)
WellFormedFrom(u, i, low) ==
  IF i > Len(u) THEN TRUE
  ELSE IF u[i] <= 127 THEN WellFormedFrom(u, i + 1, low)
  ELSE SequenceAt(u, i, low) /\
       WellFormedFrom(u, i + SecondByte(u[i], low).n, low)

WellFormedUTF8(u, low) == WellFormedFrom(u, 1, low)

\* what the claim C4 expects for the undecodable bytes bs
RECURSIVE ExpectedForMode(_, _)
ExpectedForMode(m, bs) ==
  IF m = "ignore" THEN <<>>
  ELSE IF m = "replace" THEN <<239, 191, 189>>
  ELSE IF bs = <<>> THEN <<>>
  ELSE <<237, 176 + (bs[1] \div 64), 128 + (bs[1] % 64)>> \o
       ExpectedForMode(m, Tail(bs))

\* ... and for the bytes bs of a segment in an undesignated multi-byte set
RECURSIVE ExpectedUnknown(_, _)
ExpectedUnknown(m, bs) ==
  IF bs = <<>> THEN <<>>
  ELSE (IF (bs[1] >= 33 /\ bs[1] < 127) \/ bs[1] > 127
        THEN ExpectedForMode(m, <<bs[1]>>) ELSE <<bs[1]>>) \o
       ExpectedUnknown(m, Tail(bs))

(* C1: a decoder that has returned has returned the offset of the first    *)
(* iteration that met an undecodable sequence, and the length of the input *)
(* when no iteration met one (stated for the keys that are not ISO 2022).  *)
C1_ReturnsEarliestError ==
  (pc = "done" /\ ~IsISO2022(key)) =>
    aux.ret = (IF aux.first = None THEN Len(text) ELSE aux.first)

C4_AppendedByMode ==
  /\ (ev.fn \in Routines /\ ev.bad) =>
       ev.emit = ExpectedForMode(mode, Slice(text, ev.start, ev.cp))
  /\ (ev.fn = "segment" /\
      SegmentCall(ev.pre, 0).fn = "UnknownToUTF8") =>
       s = ev.pre.s \o ExpectedUnknown(mode, Slice(text, ev.start, cp))

\* the designations and flags that InitISO2022 gives for the key
InitialDesignations == InitISO2022(key)

(* C8: a pass of ISO2022ToUTF8 over a control character or over a segment  *)
(* leaves G0..G3 and the flags as InitISO2022 gives them for the key when  *)
(* the pass is over an LF that the byte CR immediately precedes, and       *)
(* leaves them as they were in every other case.                           *)
C8_ResetExactlyAtCRLF ==
  ev.fn \in {"control", "segment"} =>
    IF /\ ev.fn = "control"
       /\ text[ev.start+1] = 10
       /\ ev.start > 0
       /\ text[ev.start] = 13
    THEN charsetG = InitialDesignations.G /\
         state = InitialDesignations.state
    ELSE charsetG = ev.pre.G /\ state = ev.pre.state

\* a CR LF has undone a designation
C8_Witness ==
  /\ ev.fn = "control"
  /\ ev.start > 0
  /\ text[ev.start] = 13 /\ text[ev.start+1] = 10
  /\ charsetG # ev.pre.G
  /\ charsetG = InitialDesignations.G

\* the escape sequence at the cursor of d is one that the claim C9 lists:
\* unknown, for another coding system, designating an unknown set, a single
\* shift with no designation or with a first byte out of range
OffendingEscape(t, d) ==
  LET escapeLen == EscapeCodeLength(t, d.i + 1)
      e == EscapeCode(Slice(t, d.i + 1, d.i + 1 + escapeLen), d.state)
      i == d.i + 1 + escapeLen
      shift == IF e.type = "CODE_SS2" THEN 2 ELSE 3
  IN
  /\ BitAnd(d.state, ST.ALTERNATE_CS) = 0
  /\ \/ e.type \in {"CODE_ERROR", "CODE_DOCS", "CODE_ACS", "CODE_CZD",
                    "CODE_C1D", "CODE_CMD", "CODE_LS2", "CODE_LS3",
                    "CODE_LS1R", "CODE_LS2R", "CODE_LS3R"}
     \/ /\ e.type \in DOMAIN Designators
        /\ CharacterSetFromEscapeCode(Slice(t, d.i + 1, i)) = CS.Unknown
     \/ /\ e.type \in {"CODE_SS2", "CODE_SS3"}
        /\ \/ d.G[shift+1] = CS.Unknown
           \/ i >= Len(t)
           \/ ~InShiftRange(t[i+1],
                            BitAnd(e.state, ST.CHARSET96_GX * 2^shift) # 0)

\* the pass ev is over such an escape sequence: the error is at its ESC,
\* unless an earlier one is recorded, and ESC and its bytes are copied
EscapeReported ==
  (ev.fn = "escape" /\ OffendingEscape(text, ev.pre)) =>
     /\ errpos = Min(ev.pre.n, ev.start)
     /\ s = ev.pre.s \o Slice(text, ev.start, cp)
     /\ cp = ev.start + 1 + EscapeCodeLength(text, ev.start + 1)

IsShiftInOut == ev.fn = "control" /\ text[ev.start+1] \in {14, 15}

(* C9, as the code has it: an escape sequence that is unknown, is for      *)
(* another coding system, designates an unknown set or is a single shift   *)
(* with no designation or with a first byte out of range is reported at    *)
(* the offset of its ESC and copied to the output; an SI or SO is reported *)
(* at its own offset and copied like every control character.              *)
C9_EscapeAtESCShiftAtItself ==
  /\ EscapeReported
  /\ IsShiftInOut =>
       /\ errpos = Min(ev.pre.n, ev.start)
       /\ s = ev.pre.s \o <<text[ev.start+1]>>

\* a single shift to a designated G2 with no byte in range after it
C9_Witness ==
  /\ ev.fn = "escape"
  /\ OffendingEscape(text, ev.pre)
  /\ ev.pre.G[3] # CS.Unknown
  /\ text[ev.start+2] = 78
  /\ errpos = ev.start
  /\ ev.start > 0

(* C9, as the specification has it: every error of ISO2022ToUTF8, SI and   *)
(* SO included, is reported at the offset of an ESC, whose escape sequence *)
(* is copied to the output.                                                *)
C9_EveryErrorAtESC ==
  /\ EscapeReported
  /\ (IsShiftInOut /\ ev.pre.n > ev.start) =>
       /\ text[errpos+1] = 27
       /\ s = ev.pre.s \o
              Slice(text, errpos, errpos + 1 + EscapeCodeLength(text, errpos + 1))

-----------------------------------------------------------------------------
(* Properties of the round trip                                            *)

\* t holds at c an 8-byte sequence A4 D4 A4 y1 A4 y2 A4 y3 whose y1, y2 and
\* y3 are a leading consonant or filler, a vowel or filler, and a trailing
\* consonant or filler
JamoShapeAt(t, c) ==
  /\ c + 8 <= Len(t)
  /\ t[c+1] = 164 /\ t[c+2] = 212
  /\ t[c+3] = 164 /\ t[c+5] = 164 /\ t[c+7] = 164
  /\ t[c+4] >= 161 /\ t[c+4] <= 212 /\ JamoTableL[t[c+4] - 160] # 0
  /\ t[c+6] >= 191 /\ t[c+6] <= 212
  /\ t[c+8] >= 161 /\ t[c+8] <= 212 /\ JamoTableT[t[c+8] - 160] # 0

\* the sequence has a leading consonant and a vowel, or is all filler
JamoCompleteAt(t, c) ==
  \/ t[c+4] # 212 /\ t[c+6] # 212
  \/ t[c+4] = 212 /\ t[c+6] = 212 /\ t[c+8] = 212

\* t holds at c a byte pair of KS X 1001 that has a character
PairAt(t, c) ==
  /\ c + 2 <= Len(t)
  /\ t[c+1] >= 161 /\ t[c+1] <= 254
  /\ t[c+2] >= 161 /\ t[c+2] <= 254
  /\ TableLookup(TableKSX1001, (t[c+1] - 161) * 94 + (t[c+2] - 161)) # 65533

\* from c on, t is made of ASCII bytes, byte pairs of KS X 1001 and complete
\* 8-byte jamo sequences
RECURSIVE PlainEUCKR(_, _)
PlainEUCKR(t, c) ==
  IF c = Len(t) THEN TRUE
  ELSE IF t[c+1] < 128 THEN PlainEUCKR(t, c + 1)
  ELSE IF JamoShapeAt(t, c) THEN JamoCompleteAt(t, c) /\ PlainEUCKR(t, c + 8)
  ELSE PairAt(t, c) /\ PlainEUCKR(t, c + 2)

-----------------------------------------------------------------------------
(* Properties of NextBackslash, against the decoder of the key.            *)

\* the offsets from c that are the second or a later byte of a character
\* that the decoder accepts
RECURSIVE TrailOffsets(_, _, _)
TrailOffsets(call, t, c) ==
  IF c >= Len(t) THEN {}
  ELSE LET r == DecoderStep(call, t, c, "replace") IN
       (IF r.bad THEN {} ELSE (c + 1)..(r.cp - 1)) \cup
       (IF r.brk THEN {} ELSE TrailOffsets(call, t, r.cp))

\* the offsets from c where the decoder accepts a character of one byte
RECURSIVE StandAlone(_, _, _)
StandAlone(call, t, c) ==
  IF c >= Len(t) THEN {}
  ELSE LET r == DecoderStep(call, t, c, "replace") IN
       (IF ~r.bad /\ r.cp = c + 1 THEN {c} ELSE {}) \cup
       (IF r.brk THEN {} ELSE StandAlone(call, t, r.cp))

Decoder == Call(AnyToUTF8(key), key)

(* C5: for GB18030, GBK, X_SJIS and X_BIG5 the offset that NextBackslash   *)
(* has returned is not that of a trailing byte of a character that the     *)
(* decoder accepts; it is the length of the text, the offset of a NUL, or  *)
(* the offset of a backslash that the decoder takes as a character.        *)
C5_NeverTrailingByte ==
  (pc = "done" /\ key \in {CS.GB18030, CS.GBK, CS.X_SJIS, CS.X_BIG5}) =>
    /\ aux.ret \notin TrailOffsets(Decoder, text, 0)
    /\ IF aux.ret = Len(text) THEN TRUE
       ELSE \/ text[aux.ret+1] = 0
            \/ text[aux.ret+1] = 92 /\
               aux.ret \in StandAlone(Decoder, text, 0)

(* C6, as the code has it: for GB18030 and GBK, NextBackslash returns 3,   *)
(* the length of the text, for the bytes C4 5C 41: the 5C is skipped and   *)
(* no backslash follows it.                                                *)
C6_SkipsToTheEnd ==
  (pc = "done" /\ key \in {CS.GB18030, CS.GBK} /\ text = <<196, 92, 65>>) =>
    aux.ret = 3

\* NextBackslash has returned for C4 5C 41 after skipping the pair C4 5C
C6_Witness ==
  /\ pc = "done" /\ key = CS.GBK /\ text = <<196, 92, 65>>
  /\ ev = [fn |-> "NextBackslashGB", start |-> 2]
  /\ aux.ret = Len(text)

(* C6, as the specification has it: for GB18030 and GBK, NextBackslash     *)
(* returns 2 for the bytes C4 5C 41.                                       *)
C6_ReturnsTwo ==
  (pc = "done" /\ key \in {CS.GB18030, CS.GBK} /\ text = <<196, 92, 65>>) =>
    aux.ret = 2

\* the offsets from that of d that ISO2022ToUTF8 reads as the bytes of an
\* escape sequence after its ESC (esc) and as the bytes of a single-shifted
\* character (shift)
RECURSIVE ISO2022Marks(_, _, _)
ISO2022Marks(k, t, d) ==
  IF d.i >= Len(t) THEN [esc |-> {}, shift |-> {}]
  ELSE LET n == ISO2022Step(k, t, "replace", 0, d)
           rest == ISO2022Marks(k, t, n)
           after == d.i + 1 + EscapeCodeLength(t, d.i + 1)
       IN IF t[d.i+1] = 27
          THEN [esc |-> rest.esc \cup ((d.i + 1)..(after - 1)),
                shift |-> rest.shift \cup (after..(n.i - 1))]
          ELSE rest

Marks == ISO2022Marks(key, text, ISO2022Begin(key, text))

\* NextBackslash has returned the offset of a backslash for an ISO 2022 key
ReturnedBackslash ==
  /\ pc = "done"
  /\ IsISO2022(key)
  /\ aux.ret < Len(text)
  /\ text[aux.ret+1] = 92

(* C7, as the code has it: for an ISO 2022 key, a backslash whose offset   *)
(* NextBackslash has returned is not a byte of a single-shifted character, *)
(* and it is a byte of an escape sequence only with G0 not multi-byte      *)
(* after that escape sequence (ESC 5C, not ESC $ 5C).                      *)
C7_NotInShiftNorMultiByteEscape ==
  ReturnedBackslash =>
    /\ aux.ret \notin Marks.shift
    /\ aux.ret \in Marks.esc => BitAnd(state, ST.MULTIBYTE_G0) = 0

\* a single-shifted 5C has been skipped, the 5C of ESC 5C returned
C7_Witness ==
  /\ ReturnedBackslash
  /\ text = <<27, 46, 70, 27, 78, 92, 27, 92>>
  /\ Marks.shift = {5}
  /\ aux.ret = 7

(* C7, as the specification has it: for an ISO 2022 key, a backslash whose *)
(* offset NextBackslash has returned is neither a byte of an escape        *)
(* sequence nor a byte of a single-shifted character.                      *)
C7_NotInEscapeNorShift ==
  ReturnedBackslash =>
    /\ aux.ret \notin Marks.esc
    /\ aux.ret \notin Marks.shift

-----------------------------------------------------------------------------
(* Properties of the registry.                                             *)

\* "ISO 2022 IR 100\ISO 2022 IR 144"
TwoSingleByteTerms ==
  TermExt(CS.ISO_IR_100) \o <<92>> \o TermExt(CS.ISO_IR_144)

(* C10, as the code has it: KeyFromString of the string                    *)
(* "ISO 2022 IR 100\ISO 2022 IR 144" returns ISO_2022_IR_100, the key of   *)
(* its first value alone, and GetCharacterSetString of that key returns    *)
(* "ISO 2022 IR 100".                                                      *)
C10_FirstValueOnly ==
  (pc = "done" /\ text = TwoSingleByteTerms) =>
    /\ key = CS.ISO_2022_IR_100
    /\ s = TermExt(CS.ISO_IR_100)

\* both values of the string have matched a row, and the string is returned
C10_Witness ==
  /\ pc = "done"
  /\ text = TwoSingleByteTerms
  /\ aux.n = 2 /\ aux.found
  /\ aux.ret = key
  /\ s # <<>>

(* C10, as the specification has it: KeyFromString of the string           *)
(* "ISO 2022 IR 100\ISO 2022 IR 144" returns a key with ISO_IR_144 and the *)
(* bit ISO_2022, and GetCharacterSetString of that key returns the string. *)
C10_BothValuesKept ==
  (pc = "done" /\ text = TwoSingleByteTerms) =>
    /\ BitAnd(key, CS.ISO_2022_BASE) = CS.ISO_IR_144
    /\ BitAnd(key, CS.ISO_2022) # 0
    /\ s = text

\* every value that the loop of KeyFromString reads from offset c on is a
\* DefinedTerm or a DefinedTermExt of the table
RECURSIVE AllValuesAreTerms(_, _)
AllValuesAreTerms(name, c) ==
  IF c = Len(name) THEN TRUE
  ELSE LET c1 == SkipSpaces(name, c)
           dp == EndOfValue(name, c1)
           l == StripTrailing(name, c1, dp - c1)
       IN /\ l > 0
          /\ \E i \in 1..Len(Charsets) : RowMatches(i, Slice(name, c1, c1 + l))
          /\ AllValuesAreTerms(name, IF dp # Len(name) THEN dp + 1 ELSE dp)

DefinedTermString(name) == name # <<>> /\ AllValuesAreTerms(name, 0)

(* C11: GetCharacterSetString is the inverse of KeyFromString: for the key *)
(* that KeyFromString has returned from a string of defined terms (the     *)
(* key ISO_IR_6 included), KeyFromString of the string that                *)
(* GetCharacterSetString returns for the key is the key again.             *)
C11_StringIsInverse ==
  (pc = "done" /\ DefinedTermString(text)) => KeyFromString(s) = key

\* the same for every key but ISO_IR_6
C11_InverseButASCII ==
  (pc = "done" /\ DefinedTermString(text) /\ key # CS.ISO_IR_6) =>
    KeyFromString(s) = key

\* the values that the loop of KeyFromString reads from offset c on, each
\* without its surrounding spaces
RECURSIVE ValuesRead(_, _)
ValuesRead(name, c) ==
  IF c = Len(name) THEN <<>>
  ELSE LET c1 == SkipSpaces(name, c)
           dp == EndOfValue(name, c1)
           l == StripTrailing(name, c1, dp - c1)
       IN <<Slice(name, c1, c1 + l)>> \o
          ValuesRead(name, IF dp # Len(name) THEN dp + 1 ELSE dp)

IsTermExt(value) ==
  value # <<>> /\ \E i \in 1..Len(Charsets) : Charsets[i].DefinedTermExt = value

\* the first row of the table that has the value as one of its terms
FirstRow(value) ==
  CHOOSE i \in 1..Len(Charsets) :
    RowMatches(i, value) /\ \A j \in 1..(i-1) : ~RowMatches(j, value)

HasISO2022Bit(k) == BitAnd(k, CS.ISO_2022) # 0

\* "ISO_IR 100\ISO 2022 IR 144"
PlainThenExt == Term(CS.ISO_IR_100) \o <<92>> \o TermExt(CS.ISO_IR_144)

ValueAtCursor == ValuesRead(text, cp)[1]

\* the next pass of the loop reads a second or later value that is a term
\* of a row with Flags 2
CombiningValue ==
  /\ pc = "KeyFromString"
  /\ cp # Len(text)
  /\ aux.n >= 1
  /\ \E i \in 1..Len(Charsets) : RowMatches(i, ValueAtCursor)
  /\ Charsets[FirstRow(ValueAtCursor)].Flags = 2

\* the text is one of the names of ISO_2022_IR_159, in any case of letters
IsAliasOfIR159 ==
  LET names == Names[RowOf(CS.ISO_2022_IR_159)] IN
  \E j \in 1..Len(names) : text \in {names[j], Upper(names[j])}

(* C13: in KeyFromString a term of a row with Flags 2 (ISO IR 87, ISO IR   *)
(* 159) read as the second or a later value makes the key (previous key    *)
(* AND ISO_2022_JP_BASE) OR the key of the row OR ISO_2022, so every       *)
(* JP-base bit of the previous key stays set; and for a name of            *)
(* ISO_2022_IR_159 the key returned contains ISO_2022_IR_87.               *)
C13_JPBaseCombinesByOr ==
  /\ [][(CombiningValue /\ aux'.n = aux.n + 1) =>
          LET row == Charsets[FirstRow(ValueAtCursor)]
              base == BitAnd(key, CS.ISO_2022_JP_BASE)
          IN /\ key' = BitOr(BitOr(base, row.Key), CS.ISO_2022)
             /\ BitAnd(key', base) = base
             /\ BitAnd(key', row.Key) = row.Key]_vars
  /\ []((pc \in {"constructed", "done"} /\ IsAliasOfIR159) =>
          /\ BitAnd(key, CS.ISO_2022_IR_159) = CS.ISO_2022_IR_159
          /\ BitAnd(key, CS.ISO_2022_IR_87) = CS.ISO_2022_IR_87)

\* "ISO 2022 IR 13\ISO 2022 IR 87\ISO 2022 IR 159" has been resolved to the
\* union of the three keys
C13_Witness ==
  /\ pc = "done"
  /\ text = Join(<<TermExt(CS.ISO_IR_13), TermExt(CS.ISO_2022_IR_87),
                   TermExt(CS.ISO_2022_IR_159)>>)
  /\ aux.n = 3
  /\ key = BitOr(CS.ISO_2022_IR_13,
                 BitOr(CS.ISO_2022_IR_87, CS.ISO_2022_IR_159))

\* the last value of the string is empty once its spaces are stripped: the
\* string is empty, or is made of spaces, or ends with a backslash that only
\* spaces follow
LastValueEmpty(name) ==
  LET l == StripTrailing(name, 0, Len(name)) IN
  IF l = 0 THEN TRUE ELSE name[l] = 92

(* C14: in KeyFromString an empty value (no bytes left once the spaces     *)
(* around it are stripped) resolves to ISO_IR_6, so a string whose last    *)
(* value is empty -- the empty string, a string of spaces, a string with   *)
(* nothing after its last backslash -- gives the key ISO_IR_6.             *)
C14_EmptyValueIsASCII ==
  (pc = "done" /\ LastValueEmpty(text)) => key = CS.ISO_IR_6

\* the same for the empty values that the loop of KeyFromString reads: a
\* string whose last value read is empty gives the key ISO_IR_6
C14_EmptyValueReadIsASCII ==
  (pc = "done" /\ text # <<>> /\
   ValuesRead(text, 0)[Len(ValuesRead(text, 0))] = <<>>) =>
    key = CS.ISO_IR_6

-----------------------------------------------------------------------------
(* Properties of GB18030ToUTF8.                                            *)

\* the bytes 84 31 A4 37 stand at offset i of t
CodeOfFFFDAt(t, i) ==
  i + 4 <= Len(t) /\ Slice(t, i, i + 4) = <<132, 49, 164, 55>>

\* the loop of GB18030ToUTF8 is about to read the bytes 84 31 A4 37
AtCodeOfFFFD ==
  /\ key = CS.GB18030
  /\ pc = "GB18030ToUTF8"
  /\ CodeOfFFFDAt(text, cp)

(* C15, as the code has it: when the loop of GB18030ToUTF8 begins a        *)
(* character at the four bytes 84 31 A4 37, it appends U+FFFD (EF BF BD),  *)
(* moves four bytes on and leaves the error offset as it was, in every     *)
(* mode and whatever follows the four bytes.  (A lead byte before 84 takes *)
(* it as its second byte, and the four bytes are then not read as one      *)
(* character.)                                                             *)
C15_CodeOfFFFDAtCursor ==
  [][AtCodeOfFFFD =>
       /\ cp' = cp + 4
       /\ s' = s \o <<239, 191, 189>>
       /\ errpos' = errpos
       /\ ev'.at = None /\ ~ev'.bad
       /\ pc' = pc]_vars

\* in escape mode the four bytes have been decoded after an ASCII byte
C15_Witness ==
  /\ key = CS.GB18030
  /\ mode = "escape"
  /\ CodeOfFFFDAt(text, 1)
  /\ Len(text) > 5
  /\ ev.fn = "GB18030ToUTF8" /\ ev.start = 1 /\ ev.cp = 5
  /\ s = <<65, 239, 191, 189>>
  /\ errpos = None

(* C15, as the specification has it: wherever the four bytes 84 31 A4 37   *)
(* stand in the input of GB18030ToUTF8, whatever precedes or follows them, *)
(* they are decoded as one character: the cursor never stops inside them,  *)
(* no step that begins at one of them reports an error, and the step that  *)
(* begins at the first of them appends U+FFFD.                             *)
C15_CodeOfFFFDAnywhere ==
  (key = CS.GB18030 /\ pc \in {"GB18030ToUTF8", "done"}) =>
    \A i \in 0..Len(text) :
      CodeOfFFFDAt(text, i) =>
        /\ cp \notin (i+1)..(i+3)
        /\ (ev.fn = "GB18030ToUTF8" /\ ev.start \in i..(i+3)) =>
             /\ ev.at = None /\ ~ev.bad
             /\ ev.start = i /\ ev.emit = <<239, 191, 189>>

-----------------------------------------------------------------------------
(* Properties of the hangul syllables.                                     *)

\* the bytes are an 8-byte jamo code A4 D4 A4 L' A4 V' A4 T'
IsJamoCode(bytes) ==
  /\ Len(bytes) = 8
  /\ bytes[1] = 164 /\ bytes[2] = 212
  /\ bytes[3] = 164 /\ bytes[5] = 164 /\ bytes[7] = 164
  /\ bytes[4] >= 161 /\ bytes[6] >= 191 /\ bytes[8] >= 161

\* the index of the syllable in the reverse table of X_EUCKR
HangulIndex == ReverseLookup(TableKSX1001, aux.code)

(* C16: for a hangul syllable U+AC00..U+D7A3, UTF8ToEUCKR writes an 8-byte *)
(* jamo code A4 D4 A4 L' A4 V' A4 T' exactly when the syllable has no code *)
(* in KS X 1001 (the value of the reverse table is 8836 or more), and      *)
(* writes the two bytes of the KS X 1001 code when it has one; it reports  *)
(* no error.                                                               *)
C16_JamoExactlyOutsideKSX1001 ==
  pc = "encoded" =>
    /\ IsJamoCode(s) <=> HangulIndex >= 8836
    /\ HangulIndex < 8836 =>
         s = <<161 + HangulIndex \div 94, 161 + (HangulIndex % 94)>>
    /\ aux.ret = 3

\* U+AC02, which has a code in CP949 only, has been written as a jamo code
C16_Witness ==
  /\ pc = "encoded"
  /\ aux.code = 44034
  /\ HangulIndex = 8836
  /\ s = <<164, 212, 164, 161, 164, 191, 164, 162>>

\* the tables of the decoder are the inverses of the tables of the encoder:
\* an entry of a table of the decoder is an index of the encoder plus one
\* (0 where no index has the byte, and 20 in tableL for the filler, which
\* is no leading consonant)
TablesAreInverses ==
  /\ \A L \in 1..19 : JamoTableL[EncodeTableL[L] + 1] = L
  /\ \A T \in 1..28 : JamoTableT[EncodeTableT[T] + 1] = T
  /\ \A j \in 1..52 :
       JamoTableL[j] \in 1..19 => EncodeTableL[JamoTableL[j]] = j - 1
  /\ \A j \in 1..52 :
       JamoTableT[j] # 0 => EncodeTableT[JamoTableT[j]] = j - 1

-----------------------------------------------------------------------------
(* Properties of the case folding.                                         *)

\* the codes that CaseFoldUnicode appends for each code of codes, in a row
RECURSIVE FoldEach(_)
FoldEach(codes) ==
  IF codes = <<>> THEN <<>>
  ELSE CaseFoldUnicode(Head(codes)) \o FoldEach(Tail(codes))

\* both calls of CaseFoldedUTF8 have returned
FoldedTwice == pc = "folded" /\ aux.calls = 2

\* C18: case folding is idempotent.  The 1 to 3 codes that CaseFoldUnicode
\* gives for a code point fold to themselves, one by one; and when
\* CaseFoldedUTF8 (key ISO_IR_192) has been applied to a text and then to the
\* string that it returned, the second call returns that string unchanged.
C18_CaseFoldIsIdempotent ==
  /\ aux.code # None =>
       LET f == CaseFoldUnicode(aux.code)
       IN /\ Len(f) \in 1..3
          /\ FoldEach(f) = f
  /\ FoldedTwice => s = aux.first

\* the two calls have returned for U+0390, which folds to three code points
C18_Witness ==
  /\ FoldedTwice
  /\ aux.code = 912
  /\ aux.first = UnicodeSeqToUTF8(<<953, 776, 769>>)
  /\ s = aux.first


-----------------------------------------------------------------------------
(* Properties of ToSafeUTF8.                                               *)

\* the number of bytes of the character that the lead byte a starts
CharLength(a) ==
  IF a < 192 THEN 1 ELSE IF a < 224 THEN 2 ELSE IF a < 240 THEN 3 ELSE 4

\* the code point of the character of n bytes at the place i of u
CharCode(u, i, n) ==
  CASE n = 1 -> u[i]
    [] n = 2 -> (u[i] % 32) * 64 + (u[i+1] % 64)
    [] n = 3 -> ((u[i] % 16) * 64 + (u[i+1] % 64)) * 64 + (u[i+2] % 64)
    [] n = 4 -> (((u[i] % 8) * 64 + (u[i+1] % 64)) * 64 + (u[i+2] % 64)) * 64
                + (u[i+3] % 64)

\* a C0 control, DEL, the backslash, a C1 control or the mark U+DC00+b of a
\* byte b
IsUnsafeCode(code) ==
  \/ code < 32
  \/ code = 127
  \/ code = 92
  \/ code >= 128 /\ code < 160
  \/ code >= 56320 /\ code <= 56575

\* the string u from the place i on, character by character: the escape of an
\* unsafe character, the bytes of any other character
RECURSIVE EscapedFrom(_, _)
EscapedFrom(u, i) ==
  IF i > Len(u) THEN <<>>
  ELSE LET n == CharLength(u[i])
           code == CharCode(u, i, n)
       IN (IF IsUnsafeCode(code)
           THEN OctalCharCode(IF code >= 56320 THEN code - 56320 ELSE code)
           ELSE SubSeq(u, i, i + n - 1)) \o EscapedFrom(u, i + n)

\* every byte of u below 0x80 is a printable character of ASCII, every
\* backslash starts an escape of three octal digits, and u has no C1 control
\* and no mark of a byte
ASCIISafe(u) ==
  \A i \in 1..Len(u) :
    /\ u[i] < 128 => u[i] >= 32 /\ u[i] <= 126
    /\ u[i] = 92 =>
         /\ i + 3 <= Len(u)
         /\ u[i+1] \in 48..51
         /\ u[i+2] \in 48..55
         /\ u[i+3] \in 48..55
    /\ u[i] = 194 => i < Len(u) /\ u[i+1] >= 160
    /\ u[i] = 237 /\ i < Len(u) => ~(u[i+1] \in 176..179)

\* C19: when ToSafeUTF8 returns, the string it returns is the string of the
\* escape-mode decoding with every C0 control, DEL, backslash, C1 control
\* and mark U+DC00+b of a byte replaced by a backslash and three octal
\* digits and every other character copied byte for byte, wherever the
\* character stands; the returned string has no control character, no mark
\* and no backslash but the ones of the escapes.
C19_UnsafeCharactersEscaped ==
  pc = "safe" =>
    /\ WellFormedUTF8(s, TRUE)
    /\ aux.safe = EscapedFrom(s, 1)
    /\ ASCIISafe(aux.safe)

\* a backslash directly after a character of three bytes, and the mark of
\* the byte 0xFF as the last bytes of the decoded string
C19_Witness ==
  /\ pc = "safe"
  /\ key = CS.ISO_IR_192
  /\ text = <<227, 129, 130, 92, 255>>
  /\ s = <<227, 129, 130, 92, 237, 179, 191>>
  /\ aux.safe = <<227, 129, 130, 92, 49, 51, 52, 92, 51, 55, 55>>


-----------------------------------------------------------------------------
(* Properties of InitISO2022.                                              *)

\* the key is a union of ISO_2022_IR_13, ISO_2022_IR_87 and ISO_2022_IR_159
IsJPBaseKey(k) ==
  /\ IsISO2022(k)
  /\ BitAnd(k, CS.ISO_2022_BASE) # 0
  /\ BitAnd(k, CS.ISO_2022_BASE) <= CS.ISO_2022_JP_BASE

\* the key has the bit of ISO IR 13
HasIR13Bit(k) == BitAnd(k, CS.ISO_IR_13) = CS.ISO_IR_13

\* G0 and G1 are JIS X 0201: romaji in G0 (ISO IR 14, for which the value
\* of ISO_IR_13 stands) and katakana in G1
PreloadedJISX0201 ==
  charsetG[1] = CS.ISO_IR_13 /\ charsetG[2] = CS.ISO_IR_13

\* C20 as it is written: InitISO2022 gives G2 = G3 = Unknown for every key,
\* JIS X 0201 in G0 and G1 for every key of the JP-base set, with or without
\* the bit of ISO IR 13, and G0 = ASCII for every other ISO 2022 key.
C20_PreloadForJPBase ==
  pc = "InitISO2022" =>
    /\ charsetG[3] = CS.Unknown /\ charsetG[4] = CS.Unknown
    /\ IsJPBaseKey(key) => PreloadedJISX0201
    /\ (IsISO2022(key) /\ ~IsJPBaseKey(key)) => charsetG[1] = CS.ISO_2022_IR_6

\* C20, amended: InitISO2022 gives G2 = G3 = Unknown for every key; for a
\* key of the JP-base set that has the bit of ISO IR 13 it gives JIS X 0201
\* katakana in G1 and romaji in G0; for a key of the JP-base set without
\* that bit it gives G0 = ASCII (ISO_2022_IR_6) and G1 = ISO_IR_6; for every
\* other ISO 2022 key and every key above ISO_2022_MAX it gives G0 = ASCII.
C20_PreloadForIR13 ==
  pc = "InitISO2022" =>
    /\ charsetG[3] = CS.Unknown /\ charsetG[4] = CS.Unknown
    /\ (IsJPBaseKey(key) /\ HasIR13Bit(key)) => PreloadedJISX0201
    /\ (IsJPBaseKey(key) /\ ~HasIR13Bit(key)) =>
         charsetG[1] = CS.ISO_2022_IR_6 /\ charsetG[2] = CS.ISO_IR_6
    /\ ((IsISO2022(key) /\ ~IsJPBaseKey(key)) \/ key > CS.ISO_2022_MAX) =>
         charsetG[1] = CS.ISO_2022_IR_6

\* InitISO2022 has returned for the key ISO_2022_IR_87, a key of the
\* JP-base set without the bit of ISO IR 13
C20_Witness ==
  /\ pc = "InitISO2022"
  /\ key = CS.ISO_2022_IR_87
  /\ IsJPBaseKey(key)
  /\ charsetG = <<CS.ISO_2022_IR_6, CS.ISO_IR_6, CS.Unknown, CS.Unknown>>


-----------------------------------------------------------------------------
(* Properties of the single shifts.                                        *)

\* this step of NextBackslash skips the byte at the cursor as a byte of a
\* single-shifted character (lines 4018-4026)
SkipsShiftedByte ==
  /\ pc = "NextBackslashISO2022"
  /\ cp # Len(text)
  /\ text[cp+1] # 27
  /\ ~IsEndLine(text[cp+1])
  /\ aux.shiftcount # 0
  /\ cp' = cp + 1
  /\ aux'.shiftcount = aux.shiftcount - 1

\* this step of NextBackslash is a pass of its loop
PassOfNextBackslash == pc = "NextBackslashISO2022" /\ ev' # ev

\* C21: after every single shift NextBackslash and ISO2022ToUTF8 consume the
\* same bytes: a pass of NextBackslash skips the byte at its cursor as a
\* byte of a single-shifted character exactly when ISO2022ToUTF8 converts
\* that byte as a byte of a single-shifted character.
C21_SameShiftedBytes ==
  [][PassOfNextBackslash => (SkipsShiftedByte <=> cp \in Marks.shift)]_vars


\* the pass ev of ISO2022ToUTF8 is over ESC N or ESC O
IsSingleShift ==
  /\ ev.fn = "escape"
  /\ ev.start + 1 < Len(text)
  /\ text[ev.start+2] \in {78, 79}
  /\ EscapeCodeLength(text, ev.start + 1) = 1

\* the slot of the single shift of the pass ev, as a place of charsetG
ShiftSlot == IF text[ev.start+2] = 78 THEN 3 ELSE 4

\* the number of bytes of a character of the slot of the single shift
ShiftByteCount ==
  IF BitAnd(ev.pre.state, ST.MULTIBYTE_G0 * 2^(ShiftSlot - 1)) # 0
  THEN 2 ELSE 1

\* the bytes that the pass ev consumed after the two bytes of ESC N or ESC O
ShiftedBytes == cp - (ev.start + 2)

\* C22: a pass of ISO2022ToUTF8 over ESC N (ESC O) with G2 (G3) Unknown
\* writes the escape sequence to the output, records the offset of its ESC
\* as an error (unless an earlier error is recorded), consumes no byte after
\* the escape sequence and leaves G0..G3 as they were; a pass over a single
\* shift that does not fail consumes one character (1 byte, or at most 2 for
\* a multi-byte set) and leaves G0..G3 as they were.
C22_SingleShiftFrame ==
  IsSingleShift =>
    /\ charsetG = ev.pre.G
    /\ IF ev.pre.G[ShiftSlot] = CS.Unknown
       THEN /\ s = ev.pre.s \o <<27, text[ev.start+2]>>
            /\ errpos = SetErrorPosition(ev.pre.n, ev.start)
            /\ ShiftedBytes = 0
       ELSE \/ /\ ShiftedBytes = 0
               /\ s = ev.pre.s \o <<27, text[ev.start+2]>>
               /\ errpos = SetErrorPosition(ev.pre.n, ev.start)
            \/ ShiftedBytes \in 1..ShiftByteCount

\* ESC N after a CR LF that has reset the G2 that ESC . F designated: the
\* escape sequence is written out and its ESC is the error
C22_Witness ==
  /\ IsSingleShift
  /\ text = <<27, 46, 70, 13, 10, 27, 78>>
  /\ ev.start = 5
  /\ ev.pre.G[3] = CS.Unknown
  /\ errpos = 5
  /\ cp = 7

-----------------------------------------------------------------------------
(* Properties of the surrogates in UTF8ToUTF8.                             *)

\* the three bytes at offset i of the text encode a high surrogate
HighSurrogateAt(i) ==
  /\ i + 3 <= Len(text)
  /\ text[i+1] = 237
  /\ text[i+2] \in 160..175
  /\ IsCont(text[i+3])

\* the three bytes at offset i of the text encode a low surrogate
LowSurrogateAt(i) ==
  /\ i + 3 <= Len(text)
  /\ text[i+1] = 237
  /\ text[i+2] \in 176..191
  /\ IsCont(text[i+3])

\* the text ends at offset i, or inside an encoded low surrogate that
\* starts there
LowSurrogateCutAt(i) ==
  \/ i = Len(text)
  \/ i + 1 = Len(text) /\ text[i+1] = 237
  \/ i + 2 = Len(text) /\ text[i+1] = 237 /\ text[i+2] \in 176..191

\* the code of the encoded surrogate at offset i
SurrogateCode(i) ==
  (13 * 64 + (text[i+2] % 64)) * 64 + (text[i+3] % 64)

\* the code point of the pair at offset i
PairedCode(i) ==
  (SurrogateCode(i) % 1024) * 1024 + (SurrogateCode(i + 3) % 1024) + 65536

\* the pass ev of UTF8ToUTF8 started at a surrogate that has no partner
PassOverLoneSurrogate ==
  /\ ev.fn = "UTF8ToUTF8"
  /\ \/ LowSurrogateAt(ev.start)
     \/ HighSurrogateAt(ev.start) /\ ~LowSurrogateAt(ev.start + 3)

-----------------------------------------------------------------------------
(* Properties of UTF8ToUnicode and UnicodeToUTF8.                          *)

\* the number of bytes of the sequence that the lead byte b announces to
\* UTF8ToUnicode, 0 for a byte that it takes for no lead byte
LeadLength(b) ==
  IF b < 128 THEN 1
  ELSE IF b >= 192 /\ b <= 223 THEN 2
  ELSE IF b >= 224 /\ b <= 239 THEN 3
  ELSE IF b >= 240 /\ b <= 247 THEN 4
  ELSE 0

\* the lead bytes of well-formed UTF-8: C0, C1 (overlong) and F5..F7 (above
\* 0x10FFFF) are no lead bytes
LegalLeadLength(b) ==
  IF b \in {192, 193} \/ b >= 245 THEN 0 ELSE LeadLength(b)

\* byte i of the input (1 is the lead byte) is there
HasByte(i) == i <= Len(text)

\* the second byte is a continuation byte and the form is not overlong
SecondByteFits ==
  /\ IsCont(text[2])
  /\ text[1] = 224 => text[2] >= 160
  /\ text[1] = 240 => text[2] >= 144

\* a byte that is there is not a continuation byte where one is due, or
\* makes an overlong form
BadTrailByte(n) ==
  \/ n >= 2 /\ HasByte(2) /\ ~SecondByteFits
  \/ \E i \in 3..n : HasByte(i) /\ ~IsCont(text[i])

\* the first two bytes put the value of a four-byte sequence above 0x10FFFF
AboveRange ==
  HasByte(2) /\ (text[1] >= 245 \/ (text[1] = 244 /\ text[2] >= 144))

\* the input starts with an encoded high surrogate, and a byte that is
\* there shows that no encoded low surrogate follows
PairBroken ==
  /\ HighSurrogateAt(0)
  /\ \/ HasByte(4) /\ text[4] # 237
     \/ HasByte(5) /\ text[5] \notin 176..191
     \/ HasByte(6) /\ ~IsCont(text[6])

\* the input starts with EF BF BE (c = 0xFFFE) or EF BF BF (c = 0xFFFF)
EncodedNoncharacter(c) ==
  HasByte(3) /\ SubSeq(text, 1, 3) = UnicodeToUTF8(c)

\* the claim's malformed input: a byte that is there is an illegal lead
\* byte, a stray continuation byte, the lead byte of an overlong form, a
\* trail byte that is no continuation byte, or puts the value above 0x10FFFF
MalformedAsStated ==
  /\ HasByte(1)
  /\ \/ LegalLeadLength(text[1]) = 0
     \/ BadTrailByte(LegalLeadLength(text[1]))
     \/ AboveRange

\* the claim's truncated input: it ends inside a sequence and its bytes
\* are the start of a sequence that is not malformed
TruncatedAsStated ==
  /\ HasByte(1)
  /\ ~MalformedAsStated
  /\ ~HasByte(LegalLeadLength(text[1]))

\* UTF8ToUnicode has decoded a byte string
DecodedBytes == pc = "decoded" /\ aux.code = None

\* C24 as stated, for every byte string that does not start with an
\* encoded high surrogate or with the encoded 0xFFFE or 0xFFFF:
\* UTF8ToUnicode returns 0xFFFE exactly when the input ends inside a
\* sequence whose bytes so far are a valid prefix, and 0xFFFF exactly when a
\* byte that is there makes the sequence malformed.
C24_SentinelsAsStated ==
  (DecodedBytes /\ ~HighSurrogateAt(0)
     /\ ~EncodedNoncharacter(65534) /\ ~EncodedNoncharacter(65535)) =>
    /\ ev.code = 65534 <=> TruncatedAsStated
    /\ ev.code = 65535 <=> MalformedAsStated

\* what UTF8ToUnicode takes for malformed: F5..F7 are lead bytes of four
\* bytes, and the value is compared with 0x10FFFF only when all four bytes
\* are there
Malformed ==
  /\ HasByte(1)
  /\ \/ LeadLength(text[1]) = 0
     \/ text[1] \in {192, 193}
     \/ BadTrailByte(LeadLength(text[1]))
     \/ LeadLength(text[1]) = 4 /\ HasByte(4) /\ AboveRange
     \/ PairBroken

\* the input ends inside a sequence or inside a pair of surrogates
Truncated ==
  /\ HasByte(1)
  /\ ~Malformed
  /\ \/ ~HasByte(LeadLength(text[1]))
     \/ HighSurrogateAt(0) /\ LowSurrogateCutAt(3)

\* the code points of the round trip
IsScalarNotSentinel(c) ==
  /\ c <= 1114111
  /\ ~(c >= 55296 /\ c <= 57343)
  /\ c \notin {65534, 65535}

\* C24, amended: UTF8ToUnicode returns 0xFFFF exactly when a byte that is
\* there makes the sequence malformed (no lead byte, overlong form, trail
\* byte that is no continuation byte, all four bytes of a value above
\* 0x10FFFF, high surrogate followed by something else than a low
\* surrogate) or the input is the encoded 0xFFFF, and 0xFFFE exactly when
\* the input ends inside a sequence with no such byte so far, also after a
\* lead byte F5..F7 or after F4 90..BF, or the input is the encoded 0xFFFE;
\* for every code point c <= 0x10FFFF other than the surrogates, 0xFFFE and
\* 0xFFFF, decoding the bytes written by UnicodeToUTF8(c) returns c and
\* consumes exactly those bytes.
C24_SentinelsAndRoundTrip ==
  pc = "decoded" =>
    IF aux.code = None
    THEN /\ ev.code = 65534 <=> (Truncated \/ EncodedNoncharacter(65534))
         /\ ev.code = 65535 <=> (Malformed \/ EncodedNoncharacter(65535))
    ELSE IsScalarNotSentinel(aux.code) =>
           /\ ev.code = aux.code
           /\ cp = Len(text)
           /\ text = s

\* the input F4 8F BF ends before the fourth byte of U+10FFFF
C24_Witness ==
  /\ DecodedBytes
  /\ text = <<244, 143, 191>>
  /\ Truncated
  /\ ev.code = 65534
  /\ cp = 3

-----------------------------------------------------------------------------
(* Properties of the designators that UTF8ToJISX writes.                   *)

\* this step is a pass of the loop of UTF8ToJISX
PassOfUTF8ToJISX == pc = "UTF8ToJISX" /\ pc' = "UTF8ToJISX" /\ cp' # cp

\* this step is the return of UTF8ToJISX
ReturnOfUTF8ToJISX == pc = "UTF8ToJISX" /\ pc' = "encoded"

\* the bytes that this step appends to the output
Appended == SubSeq(s', Len(s) + 1, Len(s'))

\* the places of the escape characters in the output
EscapesOf(out) == {i \in 1..Len(out) : out[i] = 27}

\* the designator of the character set of state st
DesignatorOf(st) ==
  IF st = 1 THEN Esc0208 ELSE IF st = 2 THEN Esc0212 ELSE EscBase(key)

\* e starts with the sequence d
StartsWith(e, d) == Len(e) >= Len(d) /\ SubSeq(e, 1, Len(d)) = d

\* the last designator of the output is the one of the base set, if the
\* output has any
EndsInBaseSet(out) ==
  \A i \in EscapesOf(out) :
    (\A j \in EscapesOf(out) : j <= i) =>
      StartsWith(SubSeq(out, i, Len(out)), EscBase(key))

\* the output of the return step: the base designator after ESC $ B or
\* ESC $ ( D, nothing otherwise, so that the output ends in the base set
ReturnsInBaseSet ==
  ReturnOfUTF8ToJISX =>
    /\ Appended = (IF state # 0 THEN EscBase(key) ELSE <<>>)
    /\ EndsInBaseSet(s')

\* C25 as stated: a pass of UTF8ToJISX writes a designator only if the
\* character set of what it writes next differs from the set designated
\* before the pass, also when the conversion fails and goes through
\* LastChanceConversion; and the output ends with the base set designated.
C25_DesignatorOnlyOnChange ==
  [][/\ (PassOfUTF8ToJISX /\ EscapesOf(Appended) # {}) => state' # state
     /\ ReturnsInBaseSet]_vars

\* C25, amended: a pass of UTF8ToJISX that changes the state variable (to
\* JIS X 0208, to JIS X 0212 or back to the base set) writes the designator
\* of the new set first, and a pass that leaves the state variable as it is
\* writes no designator, with one exception: a pass whose conversion fails
\* writes the base designator before whatever LastChanceConversion writes,
\* also when the base set is designated already (state 0).  UTF8ToJISX
\* appends the base designator before it returns if the last designator
\* was ESC $ B or ESC $ ( D, so the output ends with the base set
\* designated.
C25_DesignatorOnChangeOrFailure ==
  [][/\ PassOfUTF8ToJISX =>
          /\ EscapesOf(Appended) \subseteq {1}
          /\ state' # state =>
               /\ Appended # DesignatorOf(state')
               /\ StartsWith(Appended, DesignatorOf(state'))
          /\ (state' = state /\ EscapesOf(Appended) # {}) =>
               /\ state = 0
               /\ LastChanceConversion(TextRT, cp).out # <<>>
               /\ Appended = EscBase(key) \o LastChanceConversion(TextRT, cp).out
     /\ ReturnsInBaseSet]_vars

\* U+3042 for ISO_2022_IR_87: ESC $ B, 24 22, ESC ( B
C25_Witness ==
  /\ pc = "encoded"
  /\ key = CS.ISO_2022_IR_87
  /\ text = <<227, 129, 130>>
  /\ s = <<27, 36, 66, 36, 34, 27, 40, 66>>
  /\ cp = 3

-----------------------------------------------------------------------------
(* Properties of the lookup in a CompressedTable.                          *)

\* the ranges of the table whose start is not above the key x
RangesUpTo(t, x) == {i \in 0..(TableN(t) - 1) : LTableAt(t, i) <= x}

\* the range with the greatest start that is not above the key x
RangeOfKey(t, x) ==
  CHOOSE i \in RangesUpTo(t, x) :
    \A j \in RangesUpTo(t, x) : LTableAt(t, j) <= LTableAt(t, i)

\* the value of the key x in range i: the linear value plus the offset of
\* the key, else the dense value at the dense offset plus the offset of the
\* key, else the sentinel
ValueInRange(t, x, i) ==
  LET N == TableN(t)
      offset == x - LTableAt(t, i)
  IN IF LTableAt(t, i + N) # RCHAR THEN (LTableAt(t, i + N) + offset) % 65536
     ELSE IF LTableAt(t, i + 2 * N) # RCHAR
     THEN LTableAt(t, 3 * N + LTableAt(t, i + 2 * N) + offset)
     ELSE RCHAR

\* the lookup returns the value of the range with the greatest start <= key
ValueOfGreatestStart ==
  (pc = "returned" /\ RangesUpTo(text, aux.x) # {}) =>
    aux.y = ValueInRange(text, aux.x, RangeOfKey(text, aux.x))

\* the probe of the hot ranges finds what the search alone finds
HotProbeAsSearch ==
  (pc = "found" /\ aux.hot) =>
    aux.uptr = UpperBound(text, aux.x, 0, TableN(text))

\* a key below the first range start gives the sentinel
SentinelBelowFirstStart ==
  (pc = "returned" /\ RangesUpTo(text, aux.x) = {}) => aux.y = RCHAR

\* no read outside the array
ReadsInsideTable == pc = "returned" => ~aux.outside

-----------------------------------------------------------------------------
(* Properties of the four-byte codes of GB18030.                           *)

\* the two indices of the four-byte code q, and its linear index
IndexA(q) == (q[1] - 129) * 10 + (q[2] - 48)

IndexB(q) == (q[3] - 129) * 10 + (q[4] - 48)

LinearIndex(q) == IndexA(q) * 1260 + IndexB(q)

\* the four bytes are in the ranges of a four-byte code
InFourByteRanges(q) ==
  /\ Len(q) = 4
  /\ q[1] >= 129 /\ q[1] <= 254
  /\ q[2] >= 48 /\ q[2] <= 57
  /\ q[3] >= 129 /\ q[3] <= 254
  /\ q[4] >= 48 /\ q[4] <= 57

\* UTF8ToGB18030 has returned for a code point beyond the BMP
EncodedBeyondBMP == pc = "encoded" /\ aux.code # None

\* GB18030ToUTF8 has returned for the bytes of a code point beyond the BMP
DecodedBeyondBMP == pc = "done" /\ aux.code # None

\* GB18030ToUTF8 has returned for a four-byte code that was given
DecodedFourByte == pc = "done" /\ aux.code = None

\* the four-byte code is one of the unused indices 32..149, or its code
\* point would be above 0x10FFFF
UnusedFourByte(q) ==
  \/ IndexA(q) >= 32 /\ IndexA(q) <= 149
  \/ IndexA(q) >= 150 /\ LinearIndex(q) - 150 * 1260 + 65536 > 1114111

\* the values that the decoder stores in an unsigned short for the
\* four-byte code q
ShortValues(q) ==
  {IndexA(q), IndexB(q)}
    \cup (IF IndexA(q) < 32 THEN {LinearIndex(q) + 23940} ELSE {})
    \cup (IF IndexA(q) >= 150 THEN {IndexA(q) - 150} ELSE {})

\* C27: for a code point c in 0x10000..0x10FFFF UTF8ToGB18030 writes four
\* bytes in the ranges 81..FE, 30..39, 81..FE, 30..39 whose linear index is
\* c - 0x10000 + 150*1260, and GB18030ToUTF8 decodes them to c without an
\* error; a four-byte code with an index of 32..149, or of a code point
\* above 0x10FFFF, is an error; and every value that the decoder stores in
\* an unsigned short is below 2^16.
C27_FourByteCodes ==
  /\ EncodedBeyondBMP =>
       /\ InFourByteRanges(s)
       /\ LinearIndex(s) = aux.code - 65536 + 150 * 1260
       /\ aux.ret = Len(aux.utf8)
  /\ DecodedBeyondBMP =>
       /\ s = UnicodeToUTF8(aux.code)
       /\ UTF8ToUnicode(s, 0).code = aux.code
       /\ errpos = None
       /\ aux.ret = 4
  /\ (DecodedFourByte /\ UnusedFourByte(text)) =>
       /\ errpos = 0
       /\ aux.ret = 0
  /\ (pc = "done" /\ InFourByteRanges(text)) =>
       \A v \in ShortValues(text) : v >= 0 /\ v < 65536

\* U+10FFFF: the bytes E3 32 9A 35 and back
C27_Witness ==
  /\ DecodedBeyondBMP
  /\ aux.code = 1114111
  /\ text = <<227, 50, 154, 53>>
  /\ s = <<244, 143, 191, 191>>
  /\ errpos = None

-----------------------------------------------------------------------------
(* Properties of the two-byte codes of Shift-JIS, Big5, GBK and GB18030 *)

\* the lead bytes for which the decoder of key k goes on to a trail byte
LeadBytes(k) ==
  IF k = CS.X_SJIS THEN (129..159) \cup (224..252) ELSE 129..254

\* the trail bytes the decoder of key k takes as the second byte of a code
TrailBytes(k) ==
  IF k = CS.X_SJIS THEN (64..252) \ {127}
  ELSE IF k = CS.X_BIG5 THEN (64..126) \cup (161..254)
  ELSE (64..254) \ {127}

\* C28: for Shift-JIS (every index below 11280), Big5 (every index below
\* 19782) and GBK and GB18030 (every index below 23940) the two bytes that
\* the encoder writes for a table index have a lead byte and a trail byte
\* in the ranges that the decoder takes, the trail byte is never 0x7F, the
\* decoder reads both bytes as one code, and the table index that it
\* computes from them is the index the encoder started with.
C28_IndexAndBytesInverse ==
  /\ pc \in {"encoded", "decoded"} =>
       /\ Len(text) = 2
       /\ text[1] \in LeadBytes(key)
       /\ text[2] \in TrailBytes(key)
       /\ text[2] # 127
  /\ pc = "decoded" =>
       /\ cp = 2
       /\ ev.index = aux.index

\* the last index of the GBK regions 4/5 has been encoded as FE A0 and
\* decoded again
C28_Witness ==
  /\ pc = "decoded"
  /\ key = CS.GBK
  /\ aux.index = 23939
  /\ text = <<254, 160>>
  /\ ev.index = 23939

-----------------------------------------------------------------------------
(* Properties of EscapeCode *)

\* the code designates a character set to one of G0..G3
IsDesignation(code) ==
  \/ Len(code) = 2 /\ code[1] \in SlotBytes \cup {36}
  \/ Len(code) = 3 /\ code[1] = 36 /\ code[2] \in SlotBytes

\* the slot that the code designates to
SlotOf(code) ==
  LET b == IF Len(code) = 3 THEN code[2] ELSE code[1] IN
  CASE b \in {36, 40} -> 0 [] b \in {41, 45} -> 1
    [] b \in {42, 46} -> 2 [] b \in {43, 47} -> 3

\* the slot is named by one of '-', '.', '/'
Names96(code) ==
  (IF Len(code) = 3 THEN code[2] ELSE code[1]) \in {45, 46, 47}

MultiByteOf(st, i) == BitAnd(st, ST.MULTIBYTE_G0 * 2^i) # 0

Charset96Of(st, i) == BitAnd(st, ST.CHARSET96_GX * 2^i) # 0

\* a designation leaves the flags of the three other slots as they were
OtherSlotsUnchanged ==
  ev.fn = "EscapeCode" /\ IsDesignation(ev.code) =>
    \A j \in (0..3) \ {SlotOf(ev.code)} :
      /\ MultiByteOf(state, j) = MultiByteOf(ev.before, j)
      /\ Charset96Of(state, j) = Charset96Of(ev.before, j)

\* after a designation the flags of its slot tell its form
OwnSlotAsDesignated ==
  ev.fn = "EscapeCode" /\ IsDesignation(ev.code) =>
    LET i == SlotOf(ev.code) IN
    /\ MultiByteOf(state, i) = (ev.code[1] = 36)
    /\ Charset96Of(state, i) = Names96(ev.code)

\* C29: in EscapeCode a designation to the slot Gi changes the flags
\* MULTIBYTE_Gi and CHARSET96_Gi of this slot only and leaves the flags of
\* the three other slots unchanged; after it MULTIBYTE_Gi is set exactly if
\* the code began with '$' and CHARSET96_Gi exactly if the slot was named
\* by '-', '.' or '/'.
C29_DesignationFrame == OtherSlotsUnchanged /\ OwnSlotAsDesignated

-----------------------------------------------------------------------------
(* Properties of the loops of the decoders *)

\* a pass of the loop of a decoder or of ISO2022ToUTF8 has moved the cursor
\* forward
PassConsumesInput ==
  ev.fn \in Routines \cup {"segment", "control", "escape"} => cp > ev.start

\* a segment that UnknownToUTF8 has converted: no iteration has read a byte
\* at an offset of the segment beyond its last byte
SegmentReadInside ==
  (ev.fn = "segment" /\ SegmentCall(ev.pre, 0).fn = "UnknownToUTF8") =>
    LET l == cp - ev.start IN
    \A c \in 0..(l - 1) :
      UnknownToUTF8Reads(Slice(text, ev.start, cp), c, mode)
        \subseteq 0..(l - 1)

\* a decoder that has returned has returned an offset of its input
ReturnsOffsetOfInput ==
  pc = "done" => aux.ret \in 0..Len(text)

\* a pass of the loop of NextBackslash that does not leave the loop has
\* moved the cursor forward
ScanConsumesInput ==
  (ev.fn = "NextBackslashISO2022" /\ pc # "done") => cp > ev.start

\* C30: every pass of the loop of a decoder, and of ISO2022ToUTF8 with the
\* decoders of its segments, UnknownToUTF8 among them, consumes at least
\* one byte of the input, reads no byte at an offset l or more of the slice
\* of length l that it was given, and the decoder returns an offset in 0..l.
C30_LoopsStayInsideInput ==
  PassConsumesInput /\ SegmentReadInside /\ ReturnsOffsetOfInput

=============================================================================
